---- MODULE Spec2Model ----
(***************************************************************************)
(* A model of the tlenix platform layer (maxgmr/tlenix): the OpenOptions   *)
(* builder, the owning File handle over a small model of the kernel's      *)
(* descriptor, and the null-terminated NixString / NixBytes buffers.       *)
(*                                                                         *)
(* Bit-flag values are modelled as the set of their bit positions, so that *)
(* insert / remove / contains / intersects of the bitflags crate are set   *)
(* union / difference / subset / non-empty intersection.                   *)
(***************************************************************************)
EXTENDS Integers, Sequences, FiniteSets, TLC

VARIABLES
    \* ---- OpenOptions (src/fs/open_options.rs) ----
    open_flags,        \* OpenOptions.open_flags: set of bit positions
    file_permissions,  \* OpenOptions.file_permissions: set of bit positions
    oo_prev,           \* the OpenOptions value before the last setter call
    oo_last,           \* the last setter call: its method and argument
    oo_calls,          \* number of setter calls made so far
    \* ---- NixString / NixBytes (src/nix_str.rs, src/nix_bytes.rs) ----
    nix_input,         \* the Vec<u8> / String a value is constructed from
    nix_type,          \* "none", "NixString", "NixBytes" or "Utf8Error"
    nix_value,         \* the bytes held by the constructed value (its field .0)
    nix_ctor,          \* the conversion that constructed it
    nix_back,          \* "none", "String" or "panic": String::from(NixString)
    nix_string,        \* the bytes of the String a NixString was converted into
    \* ---- the kernel's side of one descriptor ----
    k_open,            \* the descriptor is open in the process's table
    k_kind,            \* "reg" (regular file), "dir" or "pipe" (not seekable)
    k_data,            \* the file's bytes, or the directory's entries
    k_pos,             \* the file offset (for a pipe: bytes consumed)
    \* ---- the owning File (src/fs/file.rs) ----
    pc,                \* "idle", the File method in progress, or "dropped"
    caller,            \* the public method that entered the loop in progress
    orig_cursor,       \* Option<usize>: <<>> is None, <<n>> is Some(n)
    buffer,            \* read_to_bytes: the bytes read so far
    results,           \* dir_ents: the entries decoded so far
    wbuf,              \* write: the caller's buffer
    total_bytes_written,
    ret,               \* what the last finished call returned
    entry_pos,         \* k_pos when the call in progress / last finished began
    restores,          \* lseek(SEEK_SET) restores issued by that call
    w_accepted,        \* the bytes the kernel accepted from that write, in order
    w_short,           \* that write saw a short write
    close_calls,       \* close syscalls issued by the File
    close_ret,         \* what the kernel answered to the close
    \* ---- Console::read_line (src/console.rs) and read_line (src/io.rs) ----
    con_pc,            \* "none", "idle", "read_line" or "io_read_line"
    max,               \* read_line: its argument (io.rs: the const N)
    con_result,            \* read_line: the accumulator (io.rs: the array [u8; N])
    last_was_backslash,
    con_i,                 \* io.rs read_line: the index of the next slot
    con_typed,         \* the bytes read_byte has delivered to the call, in order
    con_echo,          \* the bytes the call has written to the console, in order
    con_ret,           \* what the last finished call returned
    \* ---- parse_argv_envp (src/args.rs) ----
    stack,             \* the initial stack: argc and the pointer slots after it
    args_pc,           \* "none", "argv", "envp_check", "envp" or "done"
    ptr,               \* index of the slot ptr points at
    argv_i,            \* iterations of `for _ in 0..argc` completed
    total_size,
    argv,              \* the Strings pushed so far
    envp,              \* the EnvVars pushed so far
    args_ret,          \* Ok((argv, envp)) or Err(errno), once returned
    \* ---- EnvVar::try_from (src/args.rs) ----
    ev_key,            \* the key k a string "k=v" is formatted from
    ev_value,          \* the value v
    ev_ret,            \* "none", or what EnvVar::try_from(format!("{k}={v}")) gave
    \* ---- execute_process (src/process.rs) ----
    ep_pc,             \* the parent: "none", "call", "waitid" or "done"
    ep_argv,           \* the number of strings in argv
    ep_ret,            \* Ok(exit status) or Err(errno), once returned
    wait_args,         \* the id type, id and options of the waitid in progress
    child,             \* the forked child: its pid, where it is, its siginfo
    exec_errno,        \* the errno of the child's failed execve, 0 if none
    sibling,           \* another child of the caller, forked earlier
    \* ---- ExitStatus::try_from(WaitInfo) (src/process/types.rs) ----
    wi_code,           \* WaitInfo.child_code
    wi_status,         \* WaitInfo.status
    wi_ret,            \* what the conversion gave
    \* ---- the print macros (src/print.rs), the streams (src/streams.rs) ----
    pr_macro,          \* the invocation: the macro and its pieces of text
    pr_pc,             \* "none", "write_fmt", "done" or "panic"
    pr_k,              \* write_str calls of the invocation that have returned
    pr_lock,           \* per descriptor, who holds the Mutex of its stream
    pr_out,            \* per descriptor, the writers of the writes it received
    ow_pc,             \* the other writer: "none", "lock", "write" or "done"
    ow_fd,             \* the descriptor of the stream it writes to
    ow_left,           \* bytes of its buffer not yet written
    \* ---- the syscall loops of File (src/fs/file.rs) ----
    op_pc,             \* "none", "idle", "write" or "dir_ents"
    op_name,           \* the method called last
    op_ret,            \* the method that returned last, and Ok or Err
    op_len,            \* write: buffer.len()
    op_total,          \* write: total_bytes_written
    op_dir,            \* the number of entries of the directory
    op_pos,            \* the directory's cursor, in entries
    op_orig,           \* dir_ents: orig_cursor
    op_turn,           \* parity of the loop turns taken so far
    \* ---- Console::read_byte (src/console.rs) ----
    rb_pc,             \* "none", "read", "sleep" or "done"
    rb_queue,          \* the console's input queue
    rb_typing,         \* the bytes of the keys yet to be pressed
    rb_last,           \* what the last File::read_byte returned
    rb_reads,          \* the calls of File::read_byte made
    rb_slept,          \* the nanoseconds slept
    rb_ret,            \* what Console::read_byte returned
    \* ---- MvSettings::from_cli (src/bin/mv.rs) ----
    mv_pc,             \* "none", "args" or "done"
    mv_args,           \* the arguments next_arg has handed out, in order
    mv_result,         \* from_cli: result, the MvSettings being built
    mv_out,            \* what from_cli has printed, a line per entry
    mv_ret,            \* "none", "Ok" (of mv_result) or "Einval"
    \* ---- CatInputs::apply (src/bin/cat.rs) ----
    cat_pc,            \* "none", "call", "loop" or "done"
    cat_input,         \* the bytes apply was called on
    cat_bytes,         \* apply: *bytes
    squeeze_blank,     \* CatInputs.squeeze_blank (the other options are off)
    cat_k,             \* the bytes the loop has been through
    cat_result,        \* apply: result, the secondary buffer
    is_line_start,
    last_line_blank,
    line_num

ooVars == <<open_flags, file_permissions, oo_prev, oo_last, oo_calls>>
nixVars == <<nix_input, nix_type, nix_value, nix_ctor, nix_back, nix_string>>

kernelVars == <<k_open, k_kind, k_data, k_pos>>
fileVars ==
    <<kernelVars, pc, caller, orig_cursor, buffer, results, wbuf,
      total_bytes_written, ret, entry_pos, restores, w_accepted, w_short,
      close_calls, close_ret>>

consoleVars ==
    <<con_pc, max, con_result, last_was_backslash, con_i, con_typed, con_echo, con_ret>>
argsVars == <<stack, args_pc, ptr, argv_i, total_size, argv, envp, args_ret>>
envVarVars == <<ev_key, ev_value, ev_ret>>
processVars == <<ep_pc, ep_argv, ep_ret, wait_args, child, exec_errno, sibling>>
waitInfoVars == <<wi_code, wi_status, wi_ret>>

printVars ==
    <<pr_macro, pr_pc, pr_k, pr_lock, pr_out, ow_pc, ow_fd, ow_left>>

\* The state of the programs' tools.
fileOpVars ==
    <<op_pc, op_name, op_ret, op_len, op_total, op_dir, op_pos, op_orig,
      op_turn>>
readByteVars ==
    <<rb_pc, rb_queue, rb_typing, rb_last, rb_reads, rb_slept, rb_ret>>
mvVars == <<mv_pc, mv_args, mv_result, mv_out, mv_ret>>
catVars ==
    <<cat_pc, cat_input, cat_bytes, squeeze_blank, cat_k, cat_result,
      is_line_start, last_line_blank, line_num>>
toolVars == <<printVars, fileOpVars, readByteVars, mvVars, catVars>>

\* The state of execute_process, of the wait-info decoding and of the tools.
userVars == <<processVars, waitInfoVars, toolVars>>

\* The state of the console, of the argument parser and of EnvVar parsing,
\* which OpenOptions, NixString / NixBytes and File leave alone.
bootVars == <<consoleVars, argsVars, envVarVars, userVars>>

\* Everything else.
libVars == <<ooVars, nixVars, fileVars, consoleVars, argsVars, envVarVars>>
NotUserVars == <<libVars, toolVars>>
NotToolVars == <<libVars, processVars, waitInfoVars>>
NotPrintVars == <<NotToolVars, fileOpVars, readByteVars, mvVars, catVars>>
NotFileOpVars == <<NotToolVars, printVars, readByteVars, mvVars, catVars>>
NotReadByteVars == <<NotToolVars, printVars, fileOpVars, mvVars, catVars>>
NotMvVars == <<NotToolVars, printVars, fileOpVars, readByteVars, catVars>>
NotCatVars == <<NotToolVars, printVars, fileOpVars, readByteVars, mvVars>>

vars == <<ooVars, nixVars, fileVars, bootVars>>

(***************************************************************************)
(* Bounds                                                                  *)
(***************************************************************************)
\* Longest sequence of OpenOptions setter calls explored.
MaxCalls == 3
\* Longest byte vector a NixString / NixBytes is constructed from.
MaxLen == 3
\* Largest size of the regular file or pipe, in bytes.
MaxFile == 2
\* Longest buffer handed to File::write.
MaxBuf == 2
\* Most entries a directory holds, "." and ".." included.
MaxDirEnts == 3
\* The page size, scaled down: the chunk of read_to_bytes and the scratch
\* buffer of dir_ents, counted in bytes resp. directory entries.
PAGE_SIZE == 2
\* Largest max handed to Console::read_line (and largest N of io.rs).
MaxLine == 2
\* Most bytes read_byte delivers to one call of read_line.
MaxTyped == 4
\* Most argv strings, and most envp strings, on an initial stack that is not
\* filled up to the total-size limit.
MaxArgv == 2
MaxEnvp == 1
\* Longest key and longest value an EnvVar string is formatted from.
MaxKey == 2
\* Largest status word of a wait info that is decoded.
MaxStatus == 33
\* Largest pid fork hands out (pid 1 is the sibling's).
MaxPid == 3
\* Most pieces of text and arguments in the format of a print macro.
MaxPieces == 2
\* Longest buffer the other writer hands to a stream.
MaxStreamBuf == 2
\* Most polls of the console by one Console::read_byte that find nothing.
MaxPolls == 3
\* Most keys pressed during one Console::read_byte.
MaxKeys == 2
\* Most arguments on mv's command line.
MaxOpts == 4
\* Longest input of cat.
MaxCat == 5

(***************************************************************************)
(* bitflags operations                                                     *)
(***************************************************************************)
Insert(f, x) == f \cup x
Remove(f, x) == f \ x
Contains(f, x) == x \subseteq f
Intersects(f, x) == (f \cap x) # {}
SetBits(f, x, value) == IF value THEN Insert(f, x) ELSE Remove(f, x)

(***************************************************************************)
(* OpenFlags (src/fs/open_flags.rs): each constant is the set of the bit   *)
(* positions of its value.                                                 *)
(***************************************************************************)
O_RDONLY == {}
O_WRONLY == {0}
O_RDWR == {1}
O_CREAT == {6}
O_EXCL == {7}
O_NOCTTY == {8}
O_TRUNC == {9}
O_APPEND == {10}
O_NONBLOCK == {11}
O_DSYNC == {12}
O_ASYNC == {13}
O_DIRECT == {14}
O_DIRECTORY == {16}
O_NOFOLLOW == {17}
O_NOATIME == {18}
O_CLOEXEC == {19}
O_SYNC == {12, 20}
O_PATH == {21}
\* Not declared in the bitflags block of the sources at hand; the value is the
\* Linux ABI's 0x41_0000 (__O_TMPFILE | O_DIRECTORY), which the kernel needs
\* for OpenOptions::create_temp to open a temporary file at all.
O_TMPFILE == {16, 22}

\* OpenFlags::default(): read-only and close-on-exec.
OpenFlagsDefault == Insert(O_RDONLY, O_CLOEXEC)

(***************************************************************************)
(* FilePermissions (src/fs/permissions.rs)                                 *)
(***************************************************************************)
S_ISUID == {11}
S_ISGID == {10}
S_ISVTX == {9}
S_IRUSR == {8}
S_IWUSR == {7}
S_IXUSR == {6}
S_IRGRP == {5}
S_IWGRP == {4}
S_IXGRP == {3}
S_IROTH == {2}
S_IWOTH == {1}
S_IXOTH == {0}
FilePermissionsAll == 0 .. 11
\* FilePermissions::default(): 0o644
FilePermissionsDefault ==
    Insert({}, S_IRUSR \cup S_IWUSR \cup S_IRGRP \cup S_IROTH)
\* From<usize> for FilePermissions: from_bits_truncate drops unknown bits.
FilePermissionsFrom(bits) == bits \cap FilePermissionsAll

\* The modes handed to set_mode, as bit-position sets: 0, 0o700, 0o007,
\* 0o777 with an unknown high bit, and all ones.
ModeInputs == { {}, {6, 7, 8}, {0, 1, 2}, (0 .. 8) \cup {15}, 0 .. 15 }

(***************************************************************************)
(* OpenOptions                                                             *)
(***************************************************************************)
\* The access mode in force: the O_ACCMODE bits of the flags.
IsReadOnly(f) == ~Intersects(f, O_WRONLY \cup O_RDWR)

\* A make_flags_valid without the access-mode promotion of O_TRUNC and
\* O_TMPFILE.
make_flags_valid_NoPromote(f, last_changed, value) ==
    LET g == CASE last_changed = O_RDONLY /\ value ->
                    Remove(Remove(f, O_TRUNC), O_TMPFILE)
               [] last_changed = O_CREAT /\ ~value -> Remove(f, O_EXCL)
               [] last_changed = O_EXCL /\ value -> Insert(f, O_CREAT)
               [] OTHER -> f
    IN  IF Contains(g, O_RDWR \cup O_WRONLY) THEN Remove(g, O_WRONLY) ELSE g

\* A make_flags_valid that forgets the O_CREAT / O_EXCL coupling.
make_flags_valid_NoExcl(f, last_changed, value) ==
    LET g == CASE last_changed = O_RDONLY /\ value ->
                    Remove(Remove(f, O_TRUNC), O_TMPFILE)
               [] last_changed = O_TRUNC /\ value ->
                    IF ~Intersects(f, O_WRONLY \cup O_RDWR)
                    THEN Insert(f, O_RDWR) ELSE f
               [] last_changed = O_TMPFILE /\ value ->
                    IF ~Intersects(f, O_WRONLY \cup O_RDWR)
                    THEN Insert(f, O_RDWR) ELSE f
               [] OTHER -> f
    IN  IF Contains(g, O_RDWR \cup O_WRONLY) THEN Remove(g, O_WRONLY) ELSE g

\* A make_flags_valid without the final safety check.
make_flags_valid_NoFinal(f, last_changed, value) ==
    CASE last_changed = O_RDONLY /\ value ->
            Remove(Remove(f, O_TRUNC), O_TMPFILE)
      [] last_changed = O_CREAT /\ ~value -> Remove(f, O_EXCL)
      [] last_changed = O_EXCL /\ value -> Insert(f, O_CREAT)
      [] last_changed = O_TRUNC /\ value ->
            IF ~Intersects(f, O_WRONLY \cup O_RDWR)
            THEN Insert(f, O_RDWR) ELSE f
      [] last_changed = O_TMPFILE /\ value ->
            IF ~Intersects(f, O_WRONLY \cup O_RDWR)
            THEN Insert(f, O_RDWR) ELSE f
      [] OTHER -> f

\* OpenOptions::make_flags_valid: the match on (last_changed, value), whose
\* patterns are compared by equality of the flag value, then the final check.
make_flags_valid(f, last_changed, value) ==
    LET g == CASE last_changed = O_RDONLY /\ value ->
                    Remove(Remove(f, O_TRUNC), O_TMPFILE)
               [] last_changed = O_CREAT /\ ~value -> Remove(f, O_EXCL)
               [] last_changed = O_EXCL /\ value -> Insert(f, O_CREAT)
               [] last_changed = O_TRUNC /\ value ->
                    IF ~Intersects(f, O_WRONLY \cup O_RDWR)
                    THEN Insert(f, O_RDWR) ELSE f
               [] last_changed = O_TMPFILE /\ value ->
                    IF ~Intersects(f, O_WRONLY \cup O_RDWR)
                    THEN Insert(f, O_RDWR) ELSE f
               [] OTHER -> f
    IN  IF Contains(g, O_RDWR \cup O_WRONLY) THEN Remove(g, O_WRONLY) ELSE g

\* The bookkeeping every setter call shares: the call is counted and the value
\* it was made on is remembered.
OOCall(method, value, mode) ==
    /\ oo_calls < MaxCalls
    /\ oo_calls' = oo_calls + 1
    /\ oo_prev' = [open_flags |-> open_flags, file_permissions |-> file_permissions]
    /\ oo_last' = [method |-> method, value |-> value, mode |-> mode]
    /\ UNCHANGED <<nixVars, fileVars, bootVars>>

\* macro open_flag_setter: set the flag, then make_flags_valid.
open_flag_setter(f, flag, value) ==
    make_flags_valid(SetBits(f, flag, value), flag, value)

\* macro file_permissions_setter: set the permission bit.
file_permissions_setter(p, flag, value) == SetBits(p, flag, value)

read_only ==
    /\ OOCall("read_only", TRUE, {})
    /\ open_flags' =
           make_flags_valid(Remove(open_flags, O_RDWR \cup O_WRONLY), O_RDONLY, TRUE)
    /\ UNCHANGED file_permissions

write_only ==
    /\ OOCall("write_only", TRUE, {})
    /\ open_flags' =
           make_flags_valid(Insert(Remove(open_flags, O_RDWR), O_WRONLY),
                            O_WRONLY, TRUE)
    /\ UNCHANGED file_permissions

read_write ==
    /\ OOCall("read_write", TRUE, {})
    /\ open_flags' =
           make_flags_valid(Insert(Remove(open_flags, O_WRONLY), O_RDWR),
                            O_RDWR, TRUE)
    /\ UNCHANGED file_permissions

set_mode ==
    \E mode \in ModeInputs :
        /\ OOCall("set_mode", TRUE, mode)
        /\ file_permissions' = FilePermissionsFrom(mode)
        /\ UNCHANGED open_flags

append ==
    \E value \in BOOLEAN :
        /\ OOCall("append", value, {})
        /\ open_flags' = open_flag_setter(open_flags, O_APPEND, value)
        /\ UNCHANGED file_permissions
close_on_exec ==
    \E value \in BOOLEAN :
        /\ OOCall("close_on_exec", value, {})
        /\ open_flags' = open_flag_setter(open_flags, O_CLOEXEC, value)
        /\ UNCHANGED file_permissions
truncate ==
    \E value \in BOOLEAN :
        /\ OOCall("truncate", value, {})
        /\ open_flags' = open_flag_setter(open_flags, O_TRUNC, value)
        /\ UNCHANGED file_permissions
create ==
    \E value \in BOOLEAN :
        /\ OOCall("create", value, {})
        /\ open_flags' = open_flag_setter(open_flags, O_CREAT, value)
        /\ UNCHANGED file_permissions
create_new ==
    \E value \in BOOLEAN :
        /\ OOCall("create_new", value, {})
        /\ open_flags' = open_flag_setter(open_flags, O_EXCL, value)
        /\ UNCHANGED file_permissions
direct ==
    \E value \in BOOLEAN :
        /\ OOCall("direct", value, {})
        /\ open_flags' = open_flag_setter(open_flags, O_DIRECT, value)
        /\ UNCHANGED file_permissions
directory ==
    \E value \in BOOLEAN :
        /\ OOCall("directory", value, {})
        /\ open_flags' = open_flag_setter(open_flags, O_DIRECTORY, value)
        /\ UNCHANGED file_permissions
no_update_last_access ==
    \E value \in BOOLEAN :
        /\ OOCall("no_update_last_access", value, {})
        /\ open_flags' = open_flag_setter(open_flags, O_NOATIME, value)
        /\ UNCHANGED file_permissions
no_follow ==
    \E value \in BOOLEAN :
        /\ OOCall("no_follow", value, {})
        /\ open_flags' = open_flag_setter(open_flags, O_NOFOLLOW, value)
        /\ UNCHANGED file_permissions
non_blocking ==
    \E value \in BOOLEAN :
        /\ OOCall("non_blocking", value, {})
        /\ open_flags' = open_flag_setter(open_flags, O_NONBLOCK, value)
        /\ UNCHANGED file_permissions
path_only ==
    \E value \in BOOLEAN :
        /\ OOCall("path_only", value, {})
        /\ open_flags' = open_flag_setter(open_flags, O_PATH, value)
        /\ UNCHANGED file_permissions
create_temp ==
    \E value \in BOOLEAN :
        /\ OOCall("create_temp", value, {})
        /\ open_flags' = open_flag_setter(open_flags, O_TMPFILE, value)
        /\ UNCHANGED file_permissions
sync ==
    \E value \in BOOLEAN :
        /\ OOCall("sync", value, {})
        /\ open_flags' = open_flag_setter(open_flags, O_SYNC, value)
        /\ UNCHANGED file_permissions

set_uid ==
    \E value \in BOOLEAN :
        /\ OOCall("set_uid", value, {})
        /\ file_permissions' = file_permissions_setter(file_permissions, S_ISUID, value)
        /\ UNCHANGED open_flags
set_git ==
    \E value \in BOOLEAN :
        /\ OOCall("set_git", value, {})
        /\ file_permissions' = file_permissions_setter(file_permissions, S_ISGID, value)
        /\ UNCHANGED open_flags
sticky ==
    \E value \in BOOLEAN :
        /\ OOCall("sticky", value, {})
        /\ file_permissions' = file_permissions_setter(file_permissions, S_ISVTX, value)
        /\ UNCHANGED open_flags
owner_read ==
    \E value \in BOOLEAN :
        /\ OOCall("owner_read", value, {})
        /\ file_permissions' = file_permissions_setter(file_permissions, S_IRUSR, value)
        /\ UNCHANGED open_flags
owner_write ==
    \E value \in BOOLEAN :
        /\ OOCall("owner_write", value, {})
        /\ file_permissions' = file_permissions_setter(file_permissions, S_IWUSR, value)
        /\ UNCHANGED open_flags
owner_execute ==
    \E value \in BOOLEAN :
        /\ OOCall("owner_execute", value, {})
        /\ file_permissions' = file_permissions_setter(file_permissions, S_IXUSR, value)
        /\ UNCHANGED open_flags
group_read ==
    \E value \in BOOLEAN :
        /\ OOCall("group_read", value, {})
        /\ file_permissions' = file_permissions_setter(file_permissions, S_IRGRP, value)
        /\ UNCHANGED open_flags
group_write ==
    \E value \in BOOLEAN :
        /\ OOCall("group_write", value, {})
        /\ file_permissions' = file_permissions_setter(file_permissions, S_IWGRP, value)
        /\ UNCHANGED open_flags
group_execute ==
    \E value \in BOOLEAN :
        /\ OOCall("group_execute", value, {})
        /\ file_permissions' = file_permissions_setter(file_permissions, S_IXGRP, value)
        /\ UNCHANGED open_flags
other_read ==
    \E value \in BOOLEAN :
        /\ OOCall("other_read", value, {})
        /\ file_permissions' = file_permissions_setter(file_permissions, S_IROTH, value)
        /\ UNCHANGED open_flags
other_write ==
    \E value \in BOOLEAN :
        /\ OOCall("other_write", value, {})
        /\ file_permissions' = file_permissions_setter(file_permissions, S_IWOTH, value)
        /\ UNCHANGED open_flags
other_execute ==
    \E value \in BOOLEAN :
        /\ OOCall("other_execute", value, {})
        /\ file_permissions' = file_permissions_setter(file_permissions, S_IXOTH, value)
        /\ UNCHANGED open_flags

\* OpenOptions::new()
OONew ==
    /\ open_flags = OpenFlagsDefault
    /\ file_permissions = FilePermissionsDefault
    /\ oo_prev = [open_flags |-> OpenFlagsDefault,
                  file_permissions |-> FilePermissionsDefault]
    /\ oo_last = [method |-> "new", value |-> TRUE, mode |-> {}]
    /\ oo_calls = 0

\* No NixString / NixBytes under construction.
NixIdle ==
    /\ nix_input = <<>>
    /\ nix_type = "none"
    /\ nix_value = <<>>
    /\ nix_ctor = "none"
    /\ nix_back = "none"
    /\ nix_string = <<>>

NextOO ==
    \/ read_only \/ write_only \/ read_write \/ set_mode
    \/ append \/ close_on_exec \/ truncate \/ create \/ create_new
    \/ direct \/ directory \/ no_update_last_access \/ no_follow
    \/ non_blocking \/ path_only \/ create_temp \/ sync
    \/ set_uid \/ set_git \/ sticky
    \/ owner_read \/ owner_write \/ owner_execute
    \/ group_read \/ group_write \/ group_execute
    \/ other_read \/ other_write \/ other_execute


(***************************************************************************)
(* NixString and NixBytes                                                  *)
(***************************************************************************)
NULL_BYTE == 0

\* The bytes inputs are built from: NUL, 'M', the two bytes of U+00E9
\* (0xC3 0xA9), and 0xC0, which no UTF-8 text contains.
NixByteAlphabet == {NULL_BYTE, 77, 195, 169, 192}

\* All sequences over S of length at most n.
SeqsUpTo(S, n) == UNION { [1 .. k -> S] : k \in 0 .. n }

\* core::str::from_utf8 succeeds: the length of the scalar a lead byte starts
\* (0 when the byte cannot start one).
Utf8SeqLen(b) ==
    IF b < 128 THEN 1
    ELSE IF b >= 194 /\ b <= 223 THEN 2
    ELSE IF b >= 224 /\ b <= 239 THEN 3
    ELSE IF b >= 240 /\ b <= 244 THEN 4
    ELSE 0

Utf8IsCont(b) == b >= 128 /\ b <= 191

\* The range the second byte of a scalar must lie in, by its lead byte.
Utf8SecondOk(lead, b) ==
    CASE lead = 224 -> b >= 160 /\ b <= 191
      [] lead = 237 -> b >= 128 /\ b <= 159
      [] lead = 240 -> b >= 144 /\ b <= 191
      [] lead = 244 -> b >= 128 /\ b <= 143
      [] OTHER -> Utf8IsCont(b)

RECURSIVE Utf8ValidFrom(_, _)
Utf8ValidFrom(bytes, i) ==
    IF i > Len(bytes) THEN TRUE
    ELSE LET n == Utf8SeqLen(bytes[i])
         IN  /\ n # 0
             /\ i + n - 1 <= Len(bytes)
             /\ n >= 2 => Utf8SecondOk(bytes[i], bytes[i + 1])
             /\ \A k \in 2 .. (n - 1) : Utf8IsCont(bytes[i + k])
             /\ Utf8ValidFrom(bytes, i + n)

ValidUtf8(bytes) == Utf8ValidFrom(bytes, 1)

\* Vec::pop: the vector without its last element (unchanged when empty).
Pop(v) == IF Len(v) = 0 THEN v ELSE SubSeq(v, 1, Len(v) - 1)

\* A conversion that pushes a terminator only when the input does not end in
\* one already, and filters nothing.
NixString_try_from_NoFilter(value) ==
    IF ~ValidUtf8(value) THEN [type |-> "Utf8Error", bytes |-> <<>>]
    ELSE [type |-> "NixString",
          bytes |-> IF Len(value) > 0 /\ value[Len(value)] = NULL_BYTE
                    THEN value ELSE Append(value, NULL_BYTE)]

\* impl From<Vec<u8>> for NixBytes: filter out every null byte, push one.
NixBytes_from(value) ==
    [type |-> "NixBytes",
     bytes |-> Append(SelectSeq(value, LAMBDA byte : byte # NULL_BYTE), NULL_BYTE)]

\* impl TryFrom<Vec<u8>> for NixString: fail on invalid UTF-8, then filter out
\* every null byte and push one.
NixString_try_from(value) ==
    IF ~ValidUtf8(value) THEN [type |-> "Utf8Error", bytes |-> <<>>]
    ELSE [type |-> "NixString",
          bytes |-> Append(SelectSeq(value, LAMBDA byte : byte # NULL_BYTE),
                           NULL_BYTE)]

\* NixString::null() / NixBytes::null()
NixNull(type) == [type |-> type, bytes |-> <<NULL_BYTE>>]

\* A conversion back that keeps the terminator.
String_from_NixString_NoPop(bytes) ==
    [back |-> IF ValidUtf8(bytes) THEN "String" ELSE "panic", bytes |-> bytes]

\* impl From<NixString> for String: pop the trailing null byte; the bytes
\* that remain are the String (String::from_utf8(..).unwrap() panics on
\* invalid UTF-8).
String_from_NixString(bytes) ==
    LET rest == Pop(bytes)
    IN  [back |-> IF ValidUtf8(rest) THEN "String" ELSE "panic", bytes |-> rest]

NixConstruct(ctor, result) ==
    /\ nix_ctor' = ctor
    /\ nix_type' = result.type
    /\ nix_value' = result.bytes
    /\ UNCHANGED <<nix_input, nix_back, nix_string, ooVars, fileVars, bootVars>>

\* NixBytes::from(Vec<u8>)
NixBytesFromVec ==
    /\ nix_type = "none"
    /\ NixConstruct("NixBytes::from(Vec<u8>)", NixBytes_from(nix_input))

\* NixString::try_from(Vec<u8>)
NixStringTryFromVec ==
    /\ nix_type = "none"
    /\ NixConstruct("NixString::try_from(Vec<u8>)", NixString_try_from(nix_input))

\* impl From<String> for NixString: the input is a String, hence valid UTF-8;
\* try_from(value.into_bytes()).unwrap().
NixStringFromString ==
    /\ nix_type = "none"
    /\ ValidUtf8(nix_input)
    /\ NixConstruct("NixString::from(String)", NixString_try_from(nix_input))

\* NixString::null(), NixBytes::null(): the input plays no part.
NixNullCtor ==
    \E type \in {"NixString", "NixBytes"} :
        /\ nix_type = "none"
        /\ NixConstruct("null", NixNull(type))

\* String::from(NixString)
StringFromNixString ==
    /\ nix_type = "NixString"
    /\ nix_back = "none"
    /\ nix_back' = String_from_NixString(nix_value).back
    /\ nix_string' = String_from_NixString(nix_value).bytes
    /\ UNCHANGED <<nix_input, nix_type, nix_value, nix_ctor, ooVars, fileVars,
                   bootVars>>

NixFresh ==
    /\ nix_input \in SeqsUpTo(NixByteAlphabet, MaxLen)
    /\ nix_type = "none"
    /\ nix_value = <<>>
    /\ nix_ctor = "none"
    /\ nix_back = "none"
    /\ nix_string = <<>>

NextNix ==
    \/ NixBytesFromVec
    \/ NixStringTryFromVec
    \/ NixStringFromString
    \/ NixNullCtor
    \/ StringFromNixString


(***************************************************************************)
(* Results.  Ok(..) / Err(errno) of every call is a record with the same   *)
(* fields: ok, errno ("" on success), n (a count), data (bytes or          *)
(* entries), b (a boolean).                                                *)
(***************************************************************************)
Res(ok, errno, n, data, b) ==
    [ok |-> ok, errno |-> errno, n |-> n, data |-> data, b |-> b]
OkN(n) == Res(TRUE, "", n, <<>>, FALSE)
OkData(data) == Res(TRUE, "", Len(data), data, FALSE)
ErrNo(errno) == Res(FALSE, errno, 0, <<>>, FALSE)
Returned(op, res) == [op |-> op] @@ res

Min(a, b) == IF a < b THEN a ELSE b
Max(a, b) == IF a > b THEN a ELSE b

(***************************************************************************)
(* The kernel's side of the descriptor: what read, write, lseek,           *)
(* getdents64 and close answer.  Each operator gives the set of outcomes   *)
(* the kernel may produce; the File's code must cope with every one.       *)
(***************************************************************************)
\* The bytes files are made of: 'A' and 0xFF (never part of UTF-8 text).
FileBytes == {65, 255}

\* Directory entries as getdents64 reports them: the name's bytes and the raw
\* d_type.  ".", "..", a regular file "a", a regular file whose name is the
\* single byte 0xFF, and a sub-directory "s".
Dot == <<46>>
DotDot == <<46, 46>>
DotEntries == { [name |-> Dot, d_type |-> 4], [name |-> DotDot, d_type |-> 4] }
OtherEntries ==
    { [name |-> <<97>>, d_type |-> 8],
      [name |-> <<255>>, d_type |-> 8],
      [name |-> <<115>>, d_type |-> 4] }

\* The directories: every entry once, "." and ".." always present, in any
\* order (a filesystem lists its entries in an order of its own).
DirListings ==
    { d \in SeqsUpTo(DotEntries \cup OtherEntries, MaxDirEnts) :
        /\ \A i, j \in 1 .. Len(d) : d[i] = d[j] => i = j
        /\ \A e \in DotEntries : \E i \in 1 .. Len(d) : d[i] = e }

\* lseek(fd, offset, whence)
k_lseek(pos, offset, whence) ==
    IF ~k_open THEN [res |-> ErrNo("Ebadf"), pos |-> pos]
    ELSE IF k_kind = "pipe" THEN [res |-> ErrNo("Espipe"), pos |-> pos]
    ELSE LET base == CASE whence = "SeekSet" -> 0
                       [] whence = "SeekCur" -> pos
                       [] whence = "SeekEnd" -> Len(k_data)
             new == base + offset
         IN  IF new < 0 THEN [res |-> ErrNo("Einval"), pos |-> pos]
             ELSE [res |-> OkN(new), pos |-> new]

\* read(fd, buf, n): an error, end of file, or between 1 and n of the bytes
\* at the offset (a read may be short).
k_read(pos, n) ==
    IF ~k_open THEN { [res |-> ErrNo("Ebadf"), pos |-> pos] }
    ELSE IF k_kind = "dir" THEN { [res |-> ErrNo("Eisdir"), pos |-> pos] }
    ELSE LET avail == Max(Len(k_data) - pos, 0)
         IN  { [res |-> ErrNo("Eio"), pos |-> pos] } \cup
             ( IF avail = 0 THEN { [res |-> OkN(0), pos |-> pos] }
               ELSE { [res |-> OkData(SubSeq(k_data, pos + 1, pos + k)),
                       pos |-> pos + k] : k \in 1 .. Min(n, avail) } )

\* The file's bytes after `bytes` are written at offset pos (a hole left by a
\* seek past the end reads as zeros).
Overwrite(data, pos, bytes) ==
    LET size == Max(Len(data), pos + Len(bytes))
    IN  [i \in 1 .. size |->
            IF i > pos /\ i <= pos + Len(bytes) THEN bytes[i - pos]
            ELSE IF i <= Len(data) THEN data[i] ELSE 0]

\* write(fd, buf, n): an error, or between 0 and n bytes accepted.  A regular
\* file has room for MaxFile bytes.
k_write(pos, bytes) ==
    IF ~k_open \/ k_kind = "dir"
    THEN { [res |-> ErrNo("Ebadf"), pos |-> pos, data |-> k_data] }
    ELSE IF k_kind = "pipe"
    THEN { [res |-> ErrNo("Epipe"), pos |-> pos, data |-> k_data] } \cup
         { [res |-> OkN(k), pos |-> pos, data |-> k_data] : k \in 0 .. Len(bytes) }
    ELSE { [res |-> ErrNo("Eio"), pos |-> pos, data |-> k_data] } \cup
         ( IF MaxFile - pos <= 0
           THEN { [res |-> ErrNo("Enospc"), pos |-> pos, data |-> k_data] }
           ELSE { [res |-> OkN(k), pos |-> pos + k,
                   data |-> IF k = 0 THEN k_data
                            ELSE Overwrite(k_data, pos, SubSeq(bytes, 1, k))] :
                  k \in 0 .. Min(Len(bytes), MaxFile - pos) } )

\* getdents64(fd, buf, len): an error, 0 at the end of the directory, or the
\* next entries, as many as the kernel chooses to put in the buffer.
k_getdents64(pos, len) ==
    IF ~k_open THEN { [res |-> ErrNo("Ebadf"), pos |-> pos] }
    ELSE IF k_kind # "dir" THEN { [res |-> ErrNo("Enotdir"), pos |-> pos] }
    ELSE LET left == Max(Len(k_data) - pos, 0)
         IN  { [res |-> ErrNo("Enoent"), pos |-> pos] } \cup
             ( IF left = 0 THEN { [res |-> OkN(0), pos |-> pos] }
               ELSE { [res |-> OkData(SubSeq(k_data, pos + 1, pos + k)),
                       pos |-> pos + k] : k \in 1 .. Min(len, left) } )

\* close(fd): on an open descriptor the kernel releases it whatever it
\* answers; on a closed one it answers EBADF.
k_close == IF k_open THEN {"", "Eintr", "Eio"} ELSE {"Ebadf"}

(***************************************************************************)
(* File                                                                    *)
(***************************************************************************)
\* File::lseek_wrapper: Ok(Some(cursor)), Ok(None) on ESPIPE, or the error.
\* opt is the Option<usize>; pos is the kernel's offset afterwards.
lseek_wrapper(pos, offset, whence) ==
    LET r == k_lseek(pos, offset, whence)
    IN  IF r.res.ok
        THEN [ok |-> TRUE, errno |-> "", opt |-> <<r.res.n>>, pos |-> r.pos]
        ELSE IF r.res.errno = "Espipe"
        THEN [ok |-> TRUE, errno |-> "", opt |-> <<>>, pos |-> r.pos]
        ELSE [ok |-> FALSE, errno |-> r.res.errno, opt |-> <<>>, pos |-> r.pos]

\* File::cursor
cursor(pos) == lseek_wrapper(pos, 0, "SeekCur")

\* File::set_cursor
set_cursor(pos, offset) == lseek_wrapper(pos, offset, "SeekSet")

\* `if let Some(orig_cursor) = orig_cursor { self.set_cursor(orig_cursor) }`:
\* the outcome of the seek, and whether one was issued.
restore_cursor(orig, pos) ==
    IF orig # <<>>
    THEN [issued |-> 1] @@ set_cursor(pos, orig[1])
    ELSE [issued |-> 0, ok |-> TRUE, errno |-> "", opt |-> <<>>, pos |-> pos]

\* A read_to_bytes that returns the read's error without the restore.
rtb_restore_on_error_Skip(orig, pos) ==
    [issued |-> 0, ok |-> TRUE, errno |-> "", opt |-> <<>>, pos |-> pos]

\* read_to_bytes, the Err(errno) arm of its loop: the last-ditch restore,
\* whose result is dropped.
rtb_restore_on_error(orig, pos) == restore_cursor(orig, pos)

\* read_to_bytes after the loop: the restore, whose error is returned.
rtb_restore_on_eof(orig, pos) == restore_cursor(orig, pos)

\* read_to_string: String::from_utf8(bytes).map_err(|_| Errno::Eilseq);
\* read_to_bytes: the bytes.
rtb_finish(who, bytes) ==
    IF who = "read_to_string" /\ ~ValidUtf8(bytes) THEN ErrNo("Eilseq")
    ELSE OkData(bytes)

\* impl From<u8> for DirEntType
DirEntType_from(value) ==
    CASE value = 1 -> "Fifo"
      [] value = 2 -> "Chr"
      [] value = 4 -> "Dir"
      [] value = 6 -> "Blk"
      [] value = 8 -> "Reg"
      [] value = 10 -> "Lnk"
      [] value = 12 -> "Sock"
      [] OTHER -> "Unknown"

\* DirEnt::from_raw
DirEnt_from_raw(raw) == [name |-> raw.name, d_type |-> DirEntType_from(raw.d_type)]

\* dir_ents, the inner loop over one getdents64 batch: the first name that is
\* not UTF-8 ends the call with Eilseq; otherwise every entry is decoded.
de_decode(batch) ==
    IF \E i \in 1 .. Len(batch) : ~ValidUtf8(batch[i].name)
    THEN ErrNo("Eilseq")
    ELSE OkData([i \in 1 .. Len(batch) |-> DirEnt_from_raw(batch[i])])

\* dir_ents, the Err(errno) arm of getdents64: the last-ditch restore.
de_restore_on_error(orig, pos) == restore_cursor(orig, pos)

\* dir_ents after the loop: the restore, whose error is returned.
de_restore_on_end(orig, pos) == restore_cursor(orig, pos)

\* An is_dir_empty that looks at the number of entries only.
is_dir_empty_CountOnly(dir_ents) == Len(dir_ents) <= 2

\* File::is_dir_empty, once dir_ents has returned the list: false when there
\* are more than two entries, false at the first entry that is not "." or
\* ".." typed as a directory, true otherwise.
is_dir_empty(dir_ents) ==
    IF Len(dir_ents) > 2 THEN FALSE
    ELSE \A i \in 1 .. Len(dir_ents) :
            /\ dir_ents[i].name \in {Dot, DotDot}
            /\ dir_ents[i].d_type = "Dir"

\* A write that hands the whole buffer to every write call.
write_remaining_Whole(buf, total) == buf

\* File::write: remaining_bytes = &buffer[total_bytes_written..]
write_remaining(buf, total) == SubSeq(buf, total + 1, Len(buf))

\* The File's locals between calls.
Locals(who, orig, buf, res) ==
    /\ caller' = who
    /\ orig_cursor' = orig
    /\ buffer' = buf
    /\ results' = res

\* A call returns: the File is idle again and its locals are gone.
Return(op, res) ==
    /\ pc' = "idle"
    /\ ret' = Returned(op, res)
    /\ Locals("", <<>>, <<>>, <<>>)

NotFileVars == <<ooVars, nixVars, bootVars>>

\* File::read with a buffer of n bytes
FileRead ==
    /\ pc = "idle"
    /\ \E n \in 1 .. PAGE_SIZE : \E r \in k_read(k_pos, n) :
        /\ k_pos' = r.pos
        /\ entry_pos' = k_pos
        /\ Return("read", r.res)
    /\ UNCHANGED <<k_open, k_kind, k_data, wbuf, total_bytes_written, restores,
                   w_accepted, w_short, close_calls, close_ret, NotFileVars>>

\* File::set_cursor(offset)
FileSetCursor ==
    /\ pc = "idle"
    /\ \E offset \in -1 .. MaxFile :
        LET r == set_cursor(k_pos, offset) IN
        /\ k_pos' = r.pos
        /\ entry_pos' = k_pos
        /\ Return("set_cursor",
                  IF r.ok THEN OkData(r.opt) ELSE ErrNo(r.errno))
    /\ UNCHANGED <<k_open, k_kind, k_data, wbuf, total_bytes_written, restores,
                   w_accepted, w_short, close_calls, close_ret, NotFileVars>>

\* File::read_to_bytes / File::read_to_string, up to the loop: the cursor at
\* entry is recorded (a failing cursor() returns at once).
ReadToBytesCall ==
    /\ pc = "idle"
    /\ \E who \in {"read_to_bytes", "read_to_string"} :
        LET c == cursor(k_pos) IN
        /\ entry_pos' = k_pos
        /\ restores' = 0
        /\ k_pos' = c.pos
        /\ IF c.ok
           THEN /\ pc' = "read_to_bytes"
                /\ Locals(who, c.opt, <<>>, <<>>)
                /\ UNCHANGED ret
           ELSE Return(who, ErrNo(c.errno))
    /\ UNCHANGED <<k_open, k_kind, k_data, wbuf, total_bytes_written,
                   w_accepted, w_short, close_calls, close_ret, NotFileVars>>

\* One turn of the loop of read_to_bytes: read a chunk; on an error restore
\* the cursor and return the error; at end of file restore the cursor and
\* return the bytes; otherwise keep the chunk and go on.
ReadToBytesStep ==
    /\ pc = "read_to_bytes"
    /\ \E r \in k_read(k_pos, PAGE_SIZE) :
        IF ~r.res.ok
        THEN LET back == rtb_restore_on_error(orig_cursor, r.pos) IN
             /\ k_pos' = back.pos
             /\ restores' = restores + back.issued
             /\ Return(caller, ErrNo(r.res.errno))
        ELSE IF r.res.n = 0
        THEN LET back == rtb_restore_on_eof(orig_cursor, r.pos) IN
             /\ k_pos' = back.pos
             /\ restores' = restores + back.issued
             /\ Return(caller, IF back.ok THEN rtb_finish(caller, buffer)
                               ELSE ErrNo(back.errno))
        ELSE /\ k_pos' = r.pos
             /\ buffer' = buffer \o r.res.data
             /\ UNCHANGED <<pc, caller, orig_cursor, results, ret, restores>>
    /\ UNCHANGED <<k_open, k_kind, k_data, wbuf, total_bytes_written, entry_pos,
                   w_accepted, w_short, close_calls, close_ret, NotFileVars>>

\* File::write(buffer), up to the loop (an empty buffer never enters it).
WriteCall ==
    /\ pc = "idle"
    /\ \E b \in SeqsUpTo(FileBytes, MaxBuf) :
        /\ wbuf' = b
        /\ IF 0 < Len(b)
           THEN /\ pc' = "write"
                /\ Locals("write", <<>>, <<>>, <<>>)
                /\ UNCHANGED ret
           ELSE Return("write", OkN(0))
    /\ total_bytes_written' = 0
    /\ entry_pos' = k_pos
    /\ w_accepted' = <<>>
    /\ w_short' = FALSE
    /\ UNCHANGED <<kernelVars, restores, close_calls, close_ret, NotFileVars>>

\* One turn of the loop of File::write: write the remaining bytes; an error
\* is returned; otherwise the count is added and the loop ends once the total
\* has reached the buffer's length.
WriteStep ==
    /\ pc = "write"
    /\ LET remaining_bytes == write_remaining(wbuf, total_bytes_written) IN
       \E r \in k_write(k_pos, remaining_bytes) :
        /\ k_pos' = r.pos
        /\ k_data' = r.data
        /\ IF ~r.res.ok
           THEN /\ Return("write", ErrNo(r.res.errno))
                /\ UNCHANGED <<total_bytes_written, w_accepted, w_short>>
           ELSE /\ total_bytes_written' = total_bytes_written + r.res.n
                /\ w_accepted' = w_accepted \o SubSeq(remaining_bytes, 1, r.res.n)
                /\ w_short' = (w_short \/ r.res.n < Len(remaining_bytes))
                /\ IF total_bytes_written + r.res.n < Len(wbuf)
                   THEN UNCHANGED <<pc, caller, orig_cursor, buffer, results, ret>>
                   ELSE Return("write", OkN(total_bytes_written + r.res.n))
    /\ UNCHANGED <<k_open, k_kind, wbuf, entry_pos, restores, close_calls,
                   close_ret, NotFileVars>>

\* File::dir_ents, or File::is_dir_empty calling it, up to the loop.
DirEntsCall ==
    /\ pc = "idle"
    /\ \E who \in {"dir_ents", "is_dir_empty"} :
        LET c == cursor(k_pos) IN
        /\ entry_pos' = k_pos
        /\ restores' = 0
        /\ k_pos' = c.pos
        /\ IF c.ok
           THEN /\ pc' = "dir_ents"
                /\ Locals(who, c.opt, <<>>, <<>>)
                /\ UNCHANGED ret
           ELSE Return(who, ErrNo(c.errno))
    /\ UNCHANGED <<k_open, k_kind, k_data, wbuf, total_bytes_written,
                   w_accepted, w_short, close_calls, close_ret, NotFileVars>>

\* One turn of the outer loop of dir_ents: getdents64; on an error restore the
\* cursor and return the error; on 0 restore the cursor and return the list
\* (is_dir_empty then judges it); otherwise decode the batch, returning
\* Eilseq at once when a name is not UTF-8.
DirEntsStep ==
    /\ pc = "dir_ents"
    /\ \E r \in k_getdents64(k_pos, PAGE_SIZE) :
        IF ~r.res.ok
        THEN LET back == de_restore_on_error(orig_cursor, r.pos) IN
             /\ k_pos' = back.pos
             /\ restores' = restores + back.issued
             /\ Return(caller, ErrNo(r.res.errno))
        ELSE IF r.res.n = 0
        THEN LET back == de_restore_on_end(orig_cursor, r.pos) IN
             /\ k_pos' = back.pos
             /\ restores' = restores + back.issued
             /\ Return(caller,
                       IF ~back.ok THEN ErrNo(back.errno)
                       ELSE IF caller = "is_dir_empty"
                       THEN Res(TRUE, "", Len(results), results, is_dir_empty(results))
                       ELSE OkData(results))
        ELSE LET dec == de_decode(r.res.data) IN
             /\ k_pos' = r.pos
             /\ IF dec.ok
                THEN /\ results' = results \o dec.data
                     /\ UNCHANGED <<pc, caller, orig_cursor, buffer, ret>>
                ELSE Return(caller, dec)
             /\ UNCHANGED restores
    /\ UNCHANGED <<k_open, k_kind, k_data, wbuf, total_bytes_written, entry_pos,
                   w_accepted, w_short, close_calls, close_ret, NotFileVars>>

\* A drop that issues no close.
Drop_NoClose ==
    /\ pc = "idle"
    /\ pc' = "dropped"
    /\ ret' = Returned("drop", OkN(0))
    /\ UNCHANGED <<kernelVars, caller, orig_cursor, buffer, results, wbuf,
                   total_bytes_written, entry_pos, restores, w_accepted, w_short,
                   close_calls, close_ret, NotFileVars>>

\* impl Drop for File: close the descriptor; what close answers is not looked
\* at.
Drop ==
    /\ pc = "idle"
    /\ \E answer \in k_close :
        /\ close_ret' = answer
        /\ k_open' = FALSE
    /\ close_calls' = close_calls + 1
    /\ pc' = "dropped"
    /\ ret' = Returned("drop", OkN(0))
    /\ UNCHANGED <<k_kind, k_data, k_pos, caller, orig_cursor, buffer, results,
                   wbuf, total_bytes_written, entry_pos, restores, w_accepted,
                   w_short, NotFileVars>>

\* After the drop, a read through a copy of the descriptor number (test
\* close_file_on_drop).
StaleRead ==
    /\ pc = "dropped"
    /\ \E r \in k_read(k_pos, 1) :
        /\ k_pos' = r.pos
        /\ ret' = Returned("stale_read", r.res)
    /\ UNCHANGED <<k_open, k_kind, k_data, pc, caller, orig_cursor, buffer,
                   results, wbuf, total_bytes_written, entry_pos, restores,
                   w_accepted, w_short, close_calls, close_ret, NotFileVars>>

\* A File just opened on a regular file, a pipe or a directory.
FileOpened ==
    /\ k_open = TRUE
    /\ k_kind \in {"reg", "pipe", "dir"}
    /\ k_data \in IF k_kind = "dir" THEN DirListings
                  ELSE SeqsUpTo(FileBytes, MaxFile)
    /\ k_pos = 0
    /\ pc = "idle"
    /\ caller = ""
    /\ orig_cursor = <<>>
    /\ buffer = <<>>
    /\ results = <<>>
    /\ wbuf = <<>>
    /\ total_bytes_written = 0
    /\ ret = Returned("open", OkN(0))
    /\ entry_pos = 0
    /\ restores = 0
    /\ w_accepted = <<>>
    /\ w_short = FALSE
    /\ close_calls = 0
    /\ close_ret = ""

\* No File at all.
FileIdle ==
    /\ k_open = FALSE
    /\ k_kind = "reg"
    /\ k_data = <<>>
    /\ k_pos = 0
    /\ pc = "none"
    /\ caller = ""
    /\ orig_cursor = <<>>
    /\ buffer = <<>>
    /\ results = <<>>
    /\ wbuf = <<>>
    /\ total_bytes_written = 0
    /\ ret = Returned("none", OkN(0))
    /\ entry_pos = 0
    /\ restores = 0
    /\ w_accepted = <<>>
    /\ w_short = FALSE
    /\ close_calls = 0
    /\ close_ret = ""

NextFile ==
    \/ FileRead
    \/ FileSetCursor
    \/ ReadToBytesCall
    \/ ReadToBytesStep
    \/ WriteCall
    \/ WriteStep
    \/ DirEntsCall
    \/ DirEntsStep
    \/ Drop
    \/ StaleRead

(***************************************************************************)
(* Console::read_line (src/console.rs) and the read_line of src/io.rs      *)
(***************************************************************************)
NEWLINE_BYTE == 10
BACKSLASH_BYTE == 92
BACKSPACE_BYTE == 8
\* io.rs names the backspace byte BACKSP_BYTE.
BACKSP_BYTE == 8

\* The bytes a user types: the three bytes read_line treats specially and two
\* ordinary ones.
ConsoleBytes == {NEWLINE_BYTE, BACKSLASH_BYTE, BACKSPACE_BYTE, 97, 98}

\* Console::read_byte, seen from read_line: it loops until it has a byte or
\* an error that is not Eagain, and returns that.
Console_read_byte == { OkN(b) : b \in ConsoleBytes } \cup { ErrNo("Eio") }

\* Console::write_byte / write_console_byte: one byte written, or an error.
Console_write_byte == { OkN(1), ErrNo("Eio") }

\* A read_line whose newline ends the line even after a backslash.
read_line_byte_NoEscape(res, lwb, byte) ==
    CASE byte = NEWLINE_BYTE ->
            [result |-> res, last_was_backslash |-> lwb, returned |-> TRUE]
      [] byte = BACKSLASH_BYTE ->
            [result |-> res, last_was_backslash |-> TRUE, returned |-> FALSE]
      [] byte = BACKSPACE_BYTE ->
            [result |-> Pop(res), last_was_backslash |-> FALSE, returned |-> FALSE]
      [] OTHER ->
            [result |-> Append(res, byte), last_was_backslash |-> FALSE,
             returned |-> FALSE]

\* A read_line that stores the backspace byte like any other byte.
read_line_byte_PushBackspace(res, lwb, byte) ==
    CASE byte = NEWLINE_BYTE ->
            IF lwb
            THEN [result |-> Append(res, NEWLINE_BYTE), last_was_backslash |-> FALSE,
                  returned |-> FALSE]
            ELSE [result |-> res, last_was_backslash |-> lwb, returned |-> TRUE]
      [] byte = BACKSLASH_BYTE ->
            [result |-> res, last_was_backslash |-> TRUE, returned |-> FALSE]
      [] OTHER ->
            [result |-> Append(res, byte), last_was_backslash |-> FALSE,
             returned |-> FALSE]

\* Console::read_line, the match on the byte read and the assignment that
\* follows it: the accumulator and the flag afterwards, and whether the arm
\* returned.  The backslash arm sets the flag and continues without a push.
read_line_byte(res, lwb, byte) ==
    CASE byte = NEWLINE_BYTE ->
            IF lwb
            THEN [result |-> Append(res, NEWLINE_BYTE), last_was_backslash |-> FALSE,
                  returned |-> FALSE]
            ELSE [result |-> res, last_was_backslash |-> lwb, returned |-> TRUE]
      [] byte = BACKSLASH_BYTE ->
            [result |-> res, last_was_backslash |-> TRUE, returned |-> FALSE]
      [] byte = BACKSPACE_BYTE ->
            [result |-> Pop(res), last_was_backslash |-> FALSE, returned |-> FALSE]
      [] OTHER ->
            [result |-> Append(res, byte), last_was_backslash |-> FALSE,
             returned |-> FALSE]

\* A loop that goes round once more with a full accumulator.
read_line_continues_OneMore(res, mx) == Len(res) <= mx

\* Console::read_line: `while result.len() < max`
read_line_continues(res, mx) == Len(res) < mx

\* Everything of the File, the OpenOptions, the NixString and the parsers that
\* a console call leaves alone.
NotConsoleVars == <<ooVars, nixVars, fileVars, argsVars, envVarVars, userVars>>

\* Console::read_line(max), up to the first test of the loop.
ConsoleReadLineCall ==
    /\ con_pc = "idle"
    /\ \E mx \in 0 .. MaxLine :
        /\ max' = mx
        /\ IF read_line_continues(<<>>, mx)
           THEN con_pc' = "read_line" /\ UNCHANGED con_ret
           ELSE con_pc' = "idle" /\ con_ret' = Returned("read_line", OkData(<<>>))
    /\ con_result' = <<>>
    /\ last_was_backslash' = FALSE
    /\ con_typed' = <<>>
    /\ con_echo' = <<>>
    /\ UNCHANGED <<con_i, NotConsoleVars>>

\* One turn of the loop of Console::read_line: read a byte (an error is
\* returned), match on it, then test the loop again.  Nothing is written to
\* the console.
ConsoleReadLineStep ==
    /\ con_pc = "read_line"
    /\ Len(con_typed) < MaxTyped
    /\ \E r \in Console_read_byte :
        IF ~r.ok
        THEN /\ con_pc' = "idle"
             /\ con_ret' = Returned("read_line", ErrNo(r.errno))
             /\ UNCHANGED <<con_result, last_was_backslash, con_typed>>
        ELSE LET s == read_line_byte(con_result, last_was_backslash, r.n) IN
             /\ con_typed' = Append(con_typed, r.n)
             /\ con_result' = s.result
             /\ last_was_backslash' = s.last_was_backslash
             /\ IF s.returned \/ ~read_line_continues(s.result, max)
                THEN /\ con_pc' = "idle"
                     /\ con_ret' = Returned("read_line", OkData(s.result))
                ELSE UNCHANGED <<con_pc, con_ret>>
    /\ UNCHANGED <<max, con_i, con_echo, NotConsoleVars>>

\* io.rs read_line::<N>(), up to the first test of its loop.
IoReadLineCall ==
    /\ con_pc = "idle"
    /\ \E N \in 0 .. MaxLine :
        /\ max' = N
        /\ con_result' = IF N = 0 THEN <<>> ELSE [k \in 1 .. N |-> 0]
        /\ IF 0 < N
           THEN con_pc' = "io_read_line" /\ UNCHANGED con_ret
           ELSE con_pc' = "idle" /\ con_ret' = Returned("io_read_line", OkData(<<>>))
    /\ con_i' = 0
    /\ last_was_backslash' = FALSE
    /\ con_typed' = <<>>
    /\ con_echo' = <<>>
    /\ UNCHANGED NotConsoleVars

\* One turn of the loop of io.rs read_line: read a byte, write it back to
\* the console, store it in slot i; a backspace zeroes the slot and leaves i,
\* a newline zeroes the slot and returns, any other byte advances i.
IoReadLineStep ==
    /\ con_pc = "io_read_line"
    /\ Len(con_typed) < MaxTyped
    /\ \E r \in Console_read_byte : \E w \in Console_write_byte :
        IF ~r.ok
        THEN /\ con_pc' = "idle"
             /\ con_ret' = Returned("io_read_line", ErrNo(r.errno))
             /\ UNCHANGED <<con_result, con_i, con_typed, con_echo>>
        ELSE IF ~w.ok
        THEN /\ con_pc' = "idle"
             /\ con_ret' = Returned("io_read_line", ErrNo(w.errno))
             /\ con_typed' = Append(con_typed, r.n)
             /\ UNCHANGED <<con_result, con_i, con_echo>>
        ELSE /\ con_typed' = Append(con_typed, r.n)
             /\ con_echo' = Append(con_echo, r.n)
             /\ IF r.n = BACKSP_BYTE
                THEN /\ con_result' = [con_result EXCEPT ![con_i + 1] = 0]
                     /\ UNCHANGED <<con_i, con_pc, con_ret>>
                ELSE IF r.n = NEWLINE_BYTE
                THEN /\ con_result' = [con_result EXCEPT ![con_i + 1] = 0]
                     /\ con_pc' = "idle"
                     /\ con_ret' = Returned("io_read_line",
                                            OkData([con_result EXCEPT ![con_i + 1] = 0]))
                     /\ UNCHANGED con_i
                ELSE /\ con_result' = [con_result EXCEPT ![con_i + 1] = r.n]
                     /\ con_i' = con_i + 1
                     /\ IF con_i + 1 < max
                        THEN UNCHANGED <<con_pc, con_ret>>
                        ELSE /\ con_pc' = "idle"
                             /\ con_ret' = Returned("io_read_line",
                                                OkData([con_result EXCEPT ![con_i + 1] = r.n]))
    /\ UNCHANGED <<max, last_was_backslash, NotConsoleVars>>

\* A console just opened.
ConsoleOpened ==
    /\ con_pc = "idle"
    /\ max = 0
    /\ con_result = <<>>
    /\ last_was_backslash = FALSE
    /\ con_i = 0
    /\ con_typed = <<>>
    /\ con_echo = <<>>
    /\ con_ret = Returned("open", OkN(0))

\* No console.
ConsoleIdle ==
    /\ con_pc = "none"
    /\ max = 0
    /\ con_result = <<>>
    /\ last_was_backslash = FALSE
    /\ con_i = 0
    /\ con_typed = <<>>
    /\ con_echo = <<>>
    /\ con_ret = Returned("none", OkN(0))

NextConsole ==
    \/ ConsoleReadLineCall
    \/ ConsoleReadLineStep
    \/ IoReadLineCall
    \/ IoReadLineStep

(***************************************************************************)
(* parse_argv_envp and EnvVar (src/args.rs)                                *)
(*                                                                         *)
(* A string on the stack is the record [body, pad]: the bytes of body,     *)
(* then pad bytes 'x', then the terminating NUL.  A pointer slot is <<>>   *)
(* (null) or <<s>> (a pointer to the string s).                            *)
(***************************************************************************)
\* The limits args.rs imports from the crate root: the window in which the
\* NUL of an argument resp. of an environment string is looked for (4 KiB
\* each), and the cap on the total of their lengths (128 KiB).
ARG_LEN_LIM == 4096
ENV_LEN_LIM == 4096
ARG_ENV_LIM == 131072

Str(body, pad) == [body |-> body, pad |-> pad]
StrLen(s) == Len(s.body) + s.pad
NullPtr == <<>>
ENV_VAR_SEPARATOR == 61

\* A scan that also finds a NUL just past the window.
scan_len_Inclusive(s, lim) ==
    IF StrLen(s) <= lim THEN OkN(StrLen(s)) ELSE ErrNo("E2big")

\* slice::from_raw_parts(ptr, lim).iter().position(|&b| b == NULL_BYTE)
\*     .ok_or(Errno::E2big): the index of the string's NUL when it lies
\* within the first lim bytes.
scan_len(s, lim) ==
    IF StrLen(s) < lim THEN OkN(StrLen(s)) ELSE ErrNo("E2big")

\* An inc_total_size that rejects a total equal to the limit.
inc_total_size_Strict(total, increase) ==
    IF total + increase >= ARG_ENV_LIM THEN ErrNo("E2big")
    ELSE OkN(total + increase)

\* inc_total_size
inc_total_size(total, increase) ==
    IF total + increase > ARG_ENV_LIM THEN ErrNo("E2big")
    ELSE OkN(total + increase)

\* String::from_utf8(..).map_err(|_| Errno::Eilseq): the pad bytes are ASCII.
String_from_utf8(s) ==
    IF ValidUtf8(s.body) THEN Res(TRUE, "", StrLen(s), <<s>>, FALSE)
    ELSE ErrNo("Eilseq")

\* str::find('='): the indices (from 1) of the separator in the string.
SeparatorAt(s) == { k \in 1 .. Len(s.body) : s.body[k] = ENV_VAR_SEPARATOR }

\* An EnvVar of a key and a value, and the Einval of a string that is none.
EnvVarOk(key, value) == [ok |-> TRUE, errno |-> "", key |-> key, value |-> value]
EnvVarErr(errno) ==
    [ok |-> FALSE, errno |-> errno, key |-> Str(<<>>, 0), value |-> Str(<<>>, 0)]

\* An EnvVar parser that splits at the last separator.
EnvVar_try_from_LastEq(s) ==
    IF SeparatorAt(s) = {} THEN EnvVarErr("Einval")
    ELSE LET eq == CHOOSE k \in SeparatorAt(s) : \A m \in SeparatorAt(s) : m <= k
         IN  IF eq = 1 THEN EnvVarErr("Einval")
             ELSE EnvVarOk(Str(SubSeq(s.body, 1, eq - 1), 0),
                           Str(SubSeq(s.body, eq + 1, Len(s.body)), s.pad))

\* impl TryFrom<String> for EnvVar
EnvVar_try_from(s) ==
    IF SeparatorAt(s) = {} THEN EnvVarErr("Einval")
    ELSE LET eq == CHOOSE k \in SeparatorAt(s) : \A m \in SeparatorAt(s) : k <= m
         IN  IF eq = 1 THEN EnvVarErr("Einval")
             ELSE EnvVarOk(Str(SubSeq(s.body, 1, eq - 1), 0),
                           Str(SubSeq(s.body, eq + 1, Len(s.body)), s.pad))

\* A push that puts the new argument in front.
argv_push_Front(v, s) == <<s>> \o v

\* argv.push(arg_string)
argv_push(v, s) == Append(v, s)

\* A check that takes any slot for the end of argv.
argv_terminated_Any(slot) == TRUE

\* `(*ptr).is_null()` after the loop over argv
argv_terminated(slot) == slot = NullPtr

\* One string of argv or envp: its length within the window, the total, the
\* UTF-8 check; the first failure is the result.
parse_string(s, lim, total) ==
    LET len == scan_len(s, lim) IN
    IF ~len.ok THEN len
    ELSE LET t == inc_total_size(total, len.n) IN
         IF ~t.ok THEN t
         ELSE LET u == String_from_utf8(s) IN
              IF ~u.ok THEN u ELSE Res(TRUE, "", t.n, <<s>>, FALSE)

ArgsReturn(ok, errno) ==
    /\ args_pc' = "done"
    /\ args_ret' = [ok |-> ok, errno |-> errno]

NotArgsVars == <<ooVars, nixVars, fileVars, consoleVars, envVarVars, userVars>>

\* One turn of `for _ in 0..argc`: a null slot is Einval; otherwise the
\* string is measured, counted, decoded and pushed, and ptr advances.
ParseArgvStep ==
    /\ args_pc = "argv"
    /\ argv_i < stack.argc
    /\ LET arg_ptr == stack.ptrs[ptr] IN
       IF arg_ptr = NullPtr
       THEN /\ ArgsReturn(FALSE, "Einval")
            /\ UNCHANGED <<ptr, argv_i, total_size, argv>>
       ELSE LET r == parse_string(arg_ptr[1], ARG_LEN_LIM, total_size) IN
            IF ~r.ok
            THEN /\ ArgsReturn(FALSE, r.errno)
                 /\ UNCHANGED <<ptr, argv_i, total_size, argv>>
            ELSE /\ total_size' = r.n
                 /\ argv' = argv_push(argv, r.data[1])
                 /\ ptr' = ptr + 1
                 /\ argv_i' = argv_i + 1
                 /\ UNCHANGED <<args_pc, args_ret>>
    /\ UNCHANGED <<stack, envp, NotArgsVars>>

\* After the loop: the slot ptr points at must be the null that ends argv,
\* else Einval; then ptr advances to envp.
ParseArgvEnd ==
    /\ args_pc = "argv"
    /\ argv_i = stack.argc
    /\ IF ~argv_terminated(stack.ptrs[ptr])
       THEN ArgsReturn(FALSE, "Einval") /\ UNCHANGED ptr
       ELSE /\ args_pc' = "envp"
            /\ ptr' = ptr + 1
            /\ UNCHANGED args_ret
    /\ UNCHANGED <<stack, argv_i, total_size, argv, envp, NotArgsVars>>

\* One turn of the loop over envp: a null slot ends it with Ok((argv, envp));
\* otherwise the string is measured, counted, decoded, parsed as an EnvVar
\* and pushed.
ParseEnvpStep ==
    /\ args_pc = "envp"
    /\ LET env_ptr == stack.ptrs[ptr] IN
       IF env_ptr = NullPtr
       THEN /\ ArgsReturn(TRUE, "")
            /\ UNCHANGED <<ptr, total_size, envp>>
       ELSE LET r == parse_string(env_ptr[1], ENV_LEN_LIM, total_size) IN
            IF ~r.ok
            THEN /\ ArgsReturn(FALSE, r.errno)
                 /\ UNCHANGED <<ptr, total_size, envp>>
            ELSE LET ev == EnvVar_try_from(r.data[1]) IN
                 IF ~ev.ok
                 THEN /\ ArgsReturn(FALSE, ev.errno)
                      /\ total_size' = r.n
                      /\ UNCHANGED <<ptr, envp>>
                 ELSE /\ total_size' = r.n
                      /\ envp' = Append(envp, [key |-> ev.key, value |-> ev.value])
                      /\ ptr' = ptr + 1
                      /\ UNCHANGED <<args_pc, args_ret>>
    /\ UNCHANGED <<stack, argv_i, argv, NotArgsVars>>

\* The argument strings tried: "", "a", a byte that is not UTF-8, and the two
\* strings around the window: 4 KiB with the NUL counted, and one byte more.
ArgStrings ==
    { Str(<<>>, 0), Str(<<97>>, 0), Str(<<255>>, 0),
      Str(<<97>>, ARG_LEN_LIM - 2), Str(<<97>>, ARG_LEN_LIM - 1) }

\* The environment strings tried: "k=v", "=v", "k", and "k=xx.." around the
\* window.
EnvStrings ==
    { Str(<<107, 61, 118>>, 0), Str(<<61, 118>>, 0), Str(<<107>>, 0),
      Str(<<107, 61>>, ENV_LEN_LIM - 3), Str(<<107, 61>>, ENV_LEN_LIM - 2) }

\* The pointer slots after argc: argv, a null, envp, a null.
Slots(args, envs) ==
    [k \in 1 .. Len(args) |-> <<args[k]>>] \o <<NullPtr>> \o
    [k \in 1 .. Len(envs) |-> <<envs[k]>>] \o <<NullPtr>>

\* The stack is one of a few strings, with an argc that matches the number
\* of argv strings, falls short of it, or exceeds it by one.
SmallStack ==
    \E a \in SeqsUpTo(ArgStrings, MaxArgv) :
        \E e \in SeqsUpTo(EnvStrings, MaxEnvp) :
            \E n \in 0 .. Len(a) + 1 :
                stack = [argc |-> n, ptrs |-> Slots(a, e)]

\* The number of longest arguments (4 KiB each with the NUL) that fit under
\* the cap on the total, and the bytes then left under it.
FillCount == ARG_ENV_LIM \div (ARG_LEN_LIM - 1)
Slack == ARG_ENV_LIM - FillCount * (ARG_LEN_LIM - 1)

\* Stacks filled to the cap on the total: FillCount longest arguments, then
\* one more argument or one environment string that takes the total to the
\* cap exactly, or one byte past it.
BigStacks ==
    LET fill == [k \in 1 .. FillCount |-> Str(<<97>>, ARG_LEN_LIM - 2)] IN
    { [argc |-> FillCount + 1,
       ptrs |-> Slots(Append(fill, Str(<<97>>, Slack - 1 + over)), <<>>)] :
      over \in 0 .. 1 } \cup
    { [argc |-> FillCount,
       ptrs |-> Slots(fill, <<Str(<<107, 61>>, Slack - 2 + over)>>)] :
      over \in 0 .. 1 }

\* parse_argv_envp(stack_ptr), up to its first loop.
ArgsEntered ==
    /\ SmallStack \/ stack \in BigStacks
    /\ args_pc = "argv"
    /\ ptr = 1
    /\ argv_i = 0
    /\ total_size = 0
    /\ argv = <<>>
    /\ envp = <<>>
    /\ args_ret = [ok |-> FALSE, errno |-> ""]

\* No parse under way.
ArgsIdle ==
    /\ stack = [argc |-> 0, ptrs |-> <<NullPtr, NullPtr>>]
    /\ args_pc = "none"
    /\ ptr = 1
    /\ argv_i = 0
    /\ total_size = 0
    /\ argv = <<>>
    /\ envp = <<>>
    /\ args_ret = [ok |-> FALSE, errno |-> ""]

NextArgs ==
    \/ ParseArgvStep
    \/ ParseArgvEnd
    \/ ParseEnvpStep

\* The bytes of keys and values: 'k', '=' and 'v'.
EnvVarBytes == {107, ENV_VAR_SEPARATOR, 118}

\* format!("{k}={v}")
FormatKeyValue(k, v) == Str(k \o <<ENV_VAR_SEPARATOR>> \o v, 0)

\* EnvVar::try_from(format!("{k}={v}"))
EnvVarTryFromFormat ==
    /\ ev_ret.op = "none"
    /\ ev_ret' = [op |-> "try_from"] @@ EnvVar_try_from(FormatKeyValue(ev_key, ev_value))
    /\ UNCHANGED <<ev_key, ev_value, ooVars, nixVars, fileVars, consoleVars, argsVars,
                   userVars>>

\* A key and a value chosen, nothing parsed yet.
EnvVarChosen ==
    /\ ev_key \in SeqsUpTo(EnvVarBytes, MaxKey)
    /\ ev_value \in SeqsUpTo(EnvVarBytes, MaxKey)
    /\ ev_ret = [op |-> "none"] @@ EnvVarErr("")

\* No EnvVar parsed.
EnvVarIdle ==
    /\ ev_key = <<>>
    /\ ev_value = <<>>
    /\ ev_ret = [op |-> "none"] @@ EnvVarErr("")

NextEnvVar == EnvVarTryFromFormat

(***************************************************************************)
(* Exit statuses and wait infos (src/process/types.rs)                     *)
(***************************************************************************)
\* enum ChildCode
CLD_Exited == 1
CLD_Killed == 2
CLD_Dumped == 3
CLD_Trapped == 4
CLD_Stopped == 5
CLD_Continued == 6
ChildCode == CLD_Exited .. CLD_Continued

\* enum Signo: the numbers i32::try_into::<Signo>() accepts.
Signo == 1 .. 31

\* enum ExitStatus
ExitSuccess == [kind |-> "ExitSuccess", val |-> 0]
ExitFailure(v) == [kind |-> "ExitFailure", val |-> v]
Terminated(signo) == [kind |-> "Terminated", val |-> signo]
Stopped(signo) == [kind |-> "Stopped", val |-> signo]

\* impl From<ExitStatus> for i32
i32_from_ExitStatus(es) == es.val

\* Result<ExitStatus, Errno>
OkStatus(es) == [ok |-> TRUE, errno |-> "", status |-> es]
ErrStatus(errno) == [ok |-> FALSE, errno |-> errno, status |-> ExitSuccess]

\* A decoding that takes a stopped child for a terminated one.
ExitStatus_try_from_StoppedTerminated(child_code, status) ==
    IF child_code \in {CLD_Killed, CLD_Dumped, CLD_Stopped}
    THEN IF status \in Signo THEN OkStatus(Terminated(status))
         ELSE ErrStatus("Einval")
    ELSE IF status = 0 THEN OkStatus(ExitSuccess)
    ELSE OkStatus(ExitFailure(status))

\* impl TryFrom<WaitInfo> for ExitStatus: the match on (child_code, status),
\* its arms in order.
ExitStatus_try_from(child_code, status) ==
    IF child_code \in {CLD_Killed, CLD_Dumped}
    THEN IF status \in Signo THEN OkStatus(Terminated(status))
         ELSE ErrStatus("Einval")
    ELSE IF child_code = CLD_Stopped
    THEN IF status \in Signo THEN OkStatus(Stopped(status))
         ELSE ErrStatus("Einval")
    ELSE IF status = 0 THEN OkStatus(ExitSuccess)
    ELSE OkStatus(ExitFailure(status))

\* impl TryFrom<SigInfoRaw> for WaitInfo, then the conversion above: a code
\* that is no ChildCode is Einval.
ExitStatus_from_siginfo(code, status) ==
    IF code \notin ChildCode THEN ErrStatus("Einval")
    ELSE ExitStatus_try_from(code, status)

\* The status words tried: -1 .. MaxStatus.
StatusWords == -1 .. MaxStatus

\* ExitStatus::try_from(WaitInfo { child_code, status, .. })
WaitInfoDecode ==
    /\ wi_ret.op = "none"
    /\ wi_ret' = [op |-> "try_from"] @@ ExitStatus_try_from(wi_code, wi_status)
    /\ UNCHANGED <<wi_code, wi_status, processVars, NotUserVars>>

\* A wait info, not decoded yet.
WaitInfoChosen ==
    /\ wi_code \in ChildCode
    /\ wi_status \in StatusWords
    /\ wi_ret = [op |-> "none"] @@ ErrStatus("")

\* No wait info.
WaitInfoIdle ==
    /\ wi_code = CLD_Exited
    /\ wi_status = 0
    /\ wi_ret = [op |-> "none"] @@ ErrStatus("")

NextWaitInfo == WaitInfoDecode

(***************************************************************************)
(* execute_process (src/process.rs)                                        *)
(*                                                                         *)
(* A child is the record [pid, at, code, status]: at is "none", "exec"     *)
(* (forked, before its execve), "program" (running the new image),         *)
(* "stopped", "returned" (back in the caller's code), "zombie"             *)
(* (terminated, not waited for) or "reaped"; code and status are the       *)
(* si_code and si_status the kernel reports for it.                        *)
(***************************************************************************)
\* bitflags WaitOptions, as sets of bit positions
WSTOPPED == {1}
WEXITED == {2}

\* enum WaitIdType
WaitIdType_All == 0
WaitIdType_Pid == 1

\* `errno as i32` for the errors execve is given here: Linux's numbers.
Errno_as_i32(errno) ==
    CASE errno = "Enoent" -> 2
      [] errno = "Enoexec" -> 8
      [] errno = "Eacces" -> 13

ExecveErrnos == {"Enoent", "Enoexec", "Eacces"}

NoChild == [pid |-> 0, at |-> "none", code |-> 0, status |-> 0]

\* The kernel's exit(code): the process becomes a zombie whose status is the
\* least significant byte of the code.
k_exit(c, code) ==
    [c EXCEPT !.at = "zombie", !.code = CLD_Exited, !.status = code % 256]

\* The kernel ends the process by the signal signo, with or without a dump.
k_kill(c, cld, signo) ==
    [c EXCEPT !.at = "zombie", !.code = cld, !.status = signo]

\* A child that exits with 1 whatever the errno of its execve.
child_on_execve_error_ExitOne(c, errno) ==
    k_exit(c, i32_from_ExitStatus(ExitFailure(1)))

\* The Err arm of the child's execve: exit(ExitStatus::ExitFailure(errno as
\* i32)), which does not return.
child_on_execve_error(c, errno) ==
    k_exit(c, i32_from_ExitStatus(ExitFailure(Errno_as_i32(errno))))

\* A parent that waits for any of its children.
execute_process_wait_args_AnyChild(child_pid) ==
    [id_type |-> WaitIdType_All, id |-> child_pid, options |-> WEXITED]

\* wait(child_pid, WaitIdType::Pid, WaitOptions::WEXITED)
execute_process_wait_args(child_pid) ==
    [id_type |-> WaitIdType_Pid, id |-> child_pid, options |-> WEXITED]

\* waitid: the child c is one the call waits for, and is in a state the
\* options ask for.
k_waitable(c, args) ==
    /\ c.at \in {"zombie", "stopped"}
    /\ args.id_type = WaitIdType_All \/
       (args.id_type = WaitIdType_Pid /\ args.id = c.pid)
    /\ \/ c.at = "zombie" /\ Contains(args.options, WEXITED)
       \/ c.at = "stopped" /\ Contains(args.options, WSTOPPED)

\* waitid has reported c: a zombie is gone, a stopped child stays.
k_reaped(c) == IF c.at = "zombie" THEN [c EXCEPT !.at = "reaped"] ELSE c

\* Return from execute_process.
EpReturn(res) ==
    /\ ep_pc' = "done"
    /\ ep_ret' = res

\* execute_process(argv, envp) up to the fork: Enoent for an empty argv, the
\* error of a failed fork, else the child exists and the parent goes to wait
\* for it.
ExecuteProcessCall ==
    /\ ep_pc = "call"
    /\ IF ep_argv = 0
       THEN EpReturn(ErrStatus("Enoent")) /\ UNCHANGED <<child, wait_args>>
       ELSE \/ EpReturn(ErrStatus("Eagain")) /\ UNCHANGED <<child, wait_args>>
            \/ \E pid \in 2 .. MaxPid :
                  /\ child' = [NoChild EXCEPT !.pid = pid, !.at = "exec"]
                  /\ wait_args' = execute_process_wait_args(pid)
                  /\ ep_pc' = "waitid"
                  /\ UNCHANGED ep_ret
    /\ UNCHANGED <<ep_argv, exec_errno, sibling, waitInfoVars, NotUserVars>>

\* The child's execve: it succeeds, and the child runs the program, or it
\* fails with an errno, and the child exits.
ChildExecve ==
    /\ child.at = "exec"
    /\ \/ child' = [child EXCEPT !.at = "program"] /\ UNCHANGED exec_errno
       \/ \E errno \in ExecveErrnos :
             /\ exec_errno' = Errno_as_i32(errno)
             /\ child' = child_on_execve_error(child, errno)
    /\ UNCHANGED <<ep_pc, ep_argv, ep_ret, wait_args, sibling, waitInfoVars,
                   NotUserVars>>

\* The program the child runs exits, is killed (with or without a core
\* dump), or is stopped.
ChildProgramStep ==
    /\ child.at = "program"
    /\ \/ \E code \in {0, 1, 3, 256} : child' = k_exit(child, code)
       \/ \E signo \in {9, 15} : child' = k_kill(child, CLD_Killed, signo)
       \/ child' = k_kill(child, CLD_Dumped, 11)
       \/ child' = [child EXCEPT !.at = "stopped", !.code = CLD_Stopped,
                                 !.status = 19]
    /\ UNCHANGED <<ep_pc, ep_argv, ep_ret, wait_args, exec_errno, sibling,
                   waitInfoVars, NotUserVars>>

\* SIGCONT: the stopped child runs again.
ChildContinue ==
    /\ child.at = "stopped"
    /\ child' = [child EXCEPT !.at = "program", !.code = CLD_Continued,
                              !.status = 18]
    /\ UNCHANGED <<ep_pc, ep_argv, ep_ret, wait_args, exec_errno, sibling,
                   waitInfoVars, NotUserVars>>

\* The caller's other child exits.
SiblingExit ==
    /\ sibling.at = "program"
    /\ \E code \in {0, 2} : sibling' = k_exit(sibling, code)
    /\ UNCHANGED <<ep_pc, ep_argv, ep_ret, wait_args, child, exec_errno,
                   waitInfoVars, NotUserVars>>

\* The parent's waitid returns: with the siginfo of a child it waits for,
\* which execute_process decodes and returns, or with an error (a signal
\* interrupts it).  While no such child has changed state it blocks.
ParentWaitid ==
    /\ ep_pc = "waitid"
    /\ \/ /\ k_waitable(child, wait_args)
          /\ child' = k_reaped(child)
          /\ EpReturn(ExitStatus_from_siginfo(child.code, child.status))
          /\ UNCHANGED sibling
       \/ /\ k_waitable(sibling, wait_args)
          /\ sibling' = k_reaped(sibling)
          /\ EpReturn(ExitStatus_from_siginfo(sibling.code, sibling.status))
          /\ UNCHANGED child
       \/ /\ EpReturn(ErrStatus("Eintr"))
          /\ UNCHANGED <<child, sibling>>
    /\ UNCHANGED <<ep_argv, wait_args, exec_errno, waitInfoVars, NotUserVars>>

\* A call of execute_process, by a process that may have another child.
ProcessEntered ==
    /\ ep_pc = "call"
    /\ ep_argv \in 0 .. 1
    /\ ep_ret = ErrStatus("")
    /\ wait_args = execute_process_wait_args(0)
    /\ child = NoChild
    /\ exec_errno = 0
    /\ sibling \in {NoChild, [NoChild EXCEPT !.pid = 1, !.at = "program"]}

\* No call of execute_process.
ProcessIdle ==
    /\ ep_pc = "none"
    /\ ep_argv = 0
    /\ ep_ret = ErrStatus("")
    /\ wait_args = execute_process_wait_args(0)
    /\ child = NoChild
    /\ exec_errno = 0
    /\ sibling = NoChild

NextProcess ==
    \/ ExecuteProcessCall
    \/ ChildExecve
    \/ ChildProgramStep
    \/ ChildContinue
    \/ SiblingExit
    \/ ParentWaitid

(***************************************************************************)
(* print!, println!, eprint!, eprintln! (src/print.rs) and the locked      *)
(* standard streams (src/streams.rs)                                       *)
(*                                                                         *)
(* One invocation of a macro, and one other thread of control that writes  *)
(* to a standard stream the way src/bin/cat.rs does, through               *)
(* streams::STDOUT.lock().  What a descriptor has received is the sequence *)
(* of the write syscalls the kernel accepted on it, each tagged with its   *)
(* writer.                                                                 *)
(***************************************************************************)
\* const STDOUT, const STDERR: the descriptors
STDOUT == 1
STDERR == 2

PrintMacros == {"print", "println", "eprint", "eprintln"}

\* __print_str writes through Stdout, __print_err through Stderr.
macro_fd(name) == IF name \in {"print", "println"} THEN STDOUT ELSE STDERR

\* The write_str calls of one invocation.  Stdout.write_fmt(args) calls
\* write_str once for every literal piece and every formatted argument of
\* args; println! and eprintln! wrap the caller's arguments in "{}\n", which
\* adds the piece "\n".
macro_write_strs(m) ==
    m.pieces + (IF m.name \in {"println", "eprintln"} THEN 1 ELSE 0)

\* impl Write for Stdout / Stderr, write_str: one write syscall on the
\* descriptor.  Stdout and Stderr are unit structs of print.rs, not the
\* Mutex<Stream<Output>> statics of streams.rs, and no lock is looked at or
\* taken.  An error of the syscall becomes fmt::Error, which __print_str and
\* __print_err unwrap.
PrintWriteStr ==
    /\ pr_pc = "write_fmt"
    /\ pr_k < macro_write_strs(pr_macro)
    /\ \/ /\ pr_out' = [pr_out EXCEPT ![macro_fd(pr_macro.name)] =
                            Append(@, "macro")]
          /\ pr_k' = pr_k + 1
          /\ pr_pc' = IF pr_k + 1 = macro_write_strs(pr_macro)
                      THEN "done" ELSE "write_fmt"
       \/ /\ pr_pc' = "panic"
          /\ UNCHANGED <<pr_out, pr_k>>
    /\ UNCHANGED <<pr_macro, pr_lock, ow_pc, ow_fd, ow_left, NotPrintVars>>

\* streams::STDOUT.lock() / streams::STDERR.lock() by the other writer:
\* spin::Mutex::lock returns once the lock is free.
StreamLock ==
    /\ ow_pc = "lock"
    /\ pr_lock[ow_fd] = "none"
    /\ pr_lock' = [pr_lock EXCEPT ![ow_fd] = "other"]
    /\ ow_pc' = "write"
    /\ UNCHANGED <<pr_macro, pr_pc, pr_k, pr_out, ow_fd, ow_left, NotPrintVars>>

\* Stream<Output>::write under the guard, one write syscall of File::write's
\* loop: the kernel accepts some of the bytes left, or fails.
StreamWrite ==
    /\ ow_pc = "write"
    /\ ow_left > 0
    /\ \/ \E n \in 1 .. ow_left :
             /\ pr_out' = [pr_out EXCEPT ![ow_fd] = Append(@, "other")]
             /\ ow_left' = ow_left - n
       \/ /\ ow_left' = 0
          /\ UNCHANGED pr_out
    /\ UNCHANGED <<pr_macro, pr_pc, pr_k, pr_lock, ow_pc, ow_fd, NotPrintVars>>

\* The write has returned and the guard is dropped.
StreamUnlock ==
    /\ ow_pc = "write"
    /\ ow_left = 0
    /\ pr_lock' = [pr_lock EXCEPT ![ow_fd] = "none"]
    /\ ow_pc' = "done"
    /\ UNCHANGED <<pr_macro, pr_pc, pr_k, pr_out, ow_fd, ow_left, NotPrintVars>>

\* A macro has been invoked, and the other writer is about to write.
PrintInvoked ==
    /\ pr_macro \in [name : PrintMacros, pieces : 1 .. MaxPieces]
    /\ pr_pc = "write_fmt"
    /\ pr_k = 0
    /\ pr_lock = [fd \in {STDOUT, STDERR} |-> "none"]
    /\ pr_out = [fd \in {STDOUT, STDERR} |-> <<>>]
    /\ ow_pc = "lock"
    /\ ow_fd \in {STDOUT, STDERR}
    /\ ow_left \in 1 .. MaxStreamBuf

\* Nothing is printed.
PrintIdle ==
    /\ pr_macro = [name |-> "print", pieces |-> 1]
    /\ pr_pc = "none"
    /\ pr_k = 0
    /\ pr_lock = [fd \in {STDOUT, STDERR} |-> "none"]
    /\ pr_out = [fd \in {STDOUT, STDERR} |-> <<>>]
    /\ ow_pc = "none"
    /\ ow_fd = STDOUT
    /\ ow_left = 0

NextPrint ==
    \/ PrintWriteStr
    \/ StreamLock
    \/ StreamWrite
    \/ StreamUnlock

(***************************************************************************)
(* The syscall loops of File (src/fs/file.rs), as far as the return of a   *)
(* call goes                                                               *)
(*                                                                         *)
(* read, read_byte, write_byte and stat issue one syscall and return what  *)
(* it gave; write and dir_ents loop.  The kernel answers a syscall with an *)
(* error or with any count it may give; the directory is finite.  op_turn  *)
(* is the parity of the loop turns taken, which tells a turn that changed  *)
(* nothing else from no turn at all.                                       *)
(***************************************************************************)
SingleSyscallOps == {"read", "read_byte", "write_byte", "stat"}

\* The call in progress returns from its loop.
OpReturn(ok) ==
    /\ op_pc' = "idle"
    /\ op_ret' = [op |-> op_name, ok |-> ok]

\* File::read, File::read_byte, File::write_byte, File::stat: the result of
\* the one syscall, or what is made of it, is returned.
OpSingleSyscall ==
    /\ op_pc = "idle"
    /\ \E op \in SingleSyscallOps : \E ok \in BOOLEAN :
          /\ op_name' = op
          /\ op_pc' = "idle"
          /\ op_ret' = [op |-> op, ok |-> ok]
    /\ op_turn' = 1 - op_turn
    /\ UNCHANGED <<op_len, op_total, op_dir, op_pos, op_orig, NotFileOpVars>>

\* File::write(buffer), up to the loop (an empty buffer never enters it).
OpWriteCall ==
    /\ op_pc = "idle"
    /\ op_name' = "write"
    /\ \E len \in 0 .. MaxBuf :
          /\ op_len' = len
          /\ IF 0 < len
             THEN op_pc' = "write" /\ UNCHANGED op_ret
             ELSE op_pc' = "idle" /\ op_ret' = [op |-> "write", ok |-> TRUE]
    /\ op_total' = 0
    /\ UNCHANGED <<op_turn, op_dir, op_pos, op_orig, NotFileOpVars>>

\* File::write: the loop `while total_bytes_written < buffer.len()` is left
\* after the turn that added n.
write_turn_done(total, n, len) == ~(total + n < len)

\* One turn of the loop of File::write: the write syscall on the remaining
\* bytes fails, and the error is returned, or accepts n of them, 0 included.
OpWriteTurn ==
    /\ op_pc = "write"
    /\ \/ OpReturn(FALSE) /\ UNCHANGED op_total
       \/ \E n \in 0 .. (op_len - op_total) :
             /\ op_total' = op_total + n
             /\ IF write_turn_done(op_total, n, op_len)
                THEN OpReturn(TRUE)
                ELSE UNCHANGED <<op_pc, op_ret>>
    /\ op_turn' = 1 - op_turn
    /\ UNCHANGED <<op_name, op_len, op_dir, op_pos, op_orig, NotFileOpVars>>

\* File::dir_ents up to the loop: cursor() fails, or gives the cursor to go
\* back to.
OpDirEntsCall ==
    /\ op_pc = "idle"
    /\ op_name' = "dir_ents"
    /\ \/ /\ op_pc' = "idle"
          /\ op_ret' = [op |-> "dir_ents", ok |-> FALSE]
          /\ UNCHANGED op_orig
       \/ op_pc' = "dir_ents" /\ op_orig' = op_pos /\ UNCHANGED op_ret
    /\ UNCHANGED <<op_turn, op_len, op_total, op_dir, op_pos, NotFileOpVars>>

\* One turn of the outer loop of File::dir_ents: getdents64 fails (the cursor
\* is put back and the error returned), has nothing left (the cursor is put
\* back, which may fail, and the entries are returned), or hands out the next
\* n entries, which are decoded (a name that is not UTF-8 returns Eilseq at
\* once).
OpDirEntsTurn ==
    /\ op_pc = "dir_ents"
    /\ \/ OpReturn(FALSE) /\ op_pos' = op_orig
       \/ /\ op_pos = op_dir
          /\ \E ok \in BOOLEAN : OpReturn(ok)
          /\ op_pos' = op_orig
       \/ \E n \in 1 .. Min(PAGE_SIZE, op_dir - op_pos) :
             /\ op_pos' = op_pos + n
             /\ \/ UNCHANGED <<op_pc, op_ret>>
                \/ OpReturn(FALSE)
    /\ op_turn' = 1 - op_turn
    /\ UNCHANGED <<op_name, op_len, op_total, op_dir, op_orig, NotFileOpVars>>

\* An open File, on a directory of op_dir entries when dir_ents is called.
FileOpsOpened ==
    /\ op_pc = "idle"
    /\ op_name = "open"
    /\ op_ret = [op |-> "open", ok |-> TRUE]
    /\ op_len = 0
    /\ op_total = 0
    /\ op_dir \in 0 .. MaxDirEnts
    /\ op_pos = 0
    /\ op_orig = 0
    /\ op_turn = 0

\* No such File.
FileOpsIdle ==
    /\ op_pc = "none"
    /\ op_name = "none"
    /\ op_ret = [op |-> "none", ok |-> TRUE]
    /\ op_len = 0
    /\ op_total = 0
    /\ op_dir = 0
    /\ op_pos = 0
    /\ op_orig = 0
    /\ op_turn = 0

NextFileOps ==
    \/ OpSingleSyscall
    \/ OpWriteCall
    \/ OpWriteTurn
    \/ OpDirEntsCall
    \/ OpDirEntsTurn

\* A call in progress goes on: its next syscall is issued, and answered.
FairFileOps == WF_vars(OpWriteTurn) /\ WF_vars(OpDirEntsTurn)

(***************************************************************************)
(* Console::read_byte (src/console.rs)                                     *)
(***************************************************************************)
\* const PIT_IRQ_PERIOD: the period of the PIT's interrupt, in nanoseconds
PIT_IRQ_PERIOD == 54925400

\* Result<Option<u8>, Errno>, what File::read_byte returns
RbSome(b) == [ok |-> TRUE, some |-> TRUE, b |-> b, errno |-> ""]
RbNone == [ok |-> TRUE, some |-> FALSE, b |-> 0, errno |-> ""]
RbErr(errno) == [ok |-> FALSE, some |-> FALSE, b |-> 0, errno |-> errno]

\* The bytes typed: a NUL among them.
KeyBytes == {NULL_BYTE, NEWLINE_BYTE, 97}

\* What File::read_byte can return on the console, opened non-blocking, whose
\* input queue is q: the first byte of the queue; while the queue is empty,
\* nothing, or Eagain; or another error.
k_console_read_byte(q) ==
    {RbErr(e) : e \in {"Eio", "Ebadf"}} \cup
    (IF q = <<>> THEN {RbNone, RbErr("Eagain")} ELSE {RbSome(Head(q))})

\* A read_byte that takes only Ok(None) for `nothing read`.
read_byte_retries_NoneOnly(r) == r.ok /\ ~r.some

\* The first arm of the match of Console::read_byte:
\* Ok(None) | Err(Errno::Eagain)
read_byte_retries(r) == (r.ok /\ ~r.some) \/ (~r.ok /\ r.errno = "Eagain")

\* thread::sleep(&duration): the duration has passed when it returns Ok (an
\* early wake by Eintr is slept out); it may fail with another error.
thread_sleep(duration) ==
    {[ok |-> TRUE, errno |-> "", slept |-> duration],
     [ok |-> FALSE, errno |-> "Einval", slept |-> 0]}

\* Return from Console::read_byte.
RbReturn(res) ==
    /\ rb_pc' = "done"
    /\ rb_ret' = res

\* One turn of the loop of Console::read_byte up to the arm taken: the byte
\* read or an error that is not Eagain is returned, and on nothing read the
\* call goes to sleep.
ConsoleReadByteTurn ==
    /\ rb_pc = "read"
    /\ \E r \in k_console_read_byte(rb_queue) :
          /\ rb_last' = r
          /\ rb_queue' = IF r.ok /\ r.some THEN Tail(rb_queue) ELSE rb_queue
          /\ rb_reads' = rb_reads + 1
          /\ IF read_byte_retries(r)
             THEN /\ rb_reads < MaxPolls
                  /\ rb_pc' = "sleep"
                  /\ UNCHANGED rb_ret
             ELSE IF ~r.ok THEN RbReturn(RbErr(r.errno))
             ELSE RbReturn(RbSome(r.b))
    /\ UNCHANGED <<rb_slept, rb_typing, NotReadByteVars>>

\* The first arm: thread::sleep(&sleep_duration)?, then the next turn.
ConsoleReadByteSleep ==
    /\ rb_pc = "sleep"
    /\ \E s \in thread_sleep(PIT_IRQ_PERIOD) :
          /\ rb_slept' = rb_slept + s.slept
          /\ IF s.ok
             THEN rb_pc' = "read" /\ UNCHANGED rb_ret
             ELSE RbReturn(RbErr(s.errno))
    /\ UNCHANGED <<rb_last, rb_reads, rb_queue, rb_typing, NotReadByteVars>>

\* A key is pressed while the call is in progress: its byte joins the
\* console's input queue.
ConsoleKeyPress ==
    /\ rb_pc \in {"read", "sleep"}
    /\ rb_typing # <<>>
    /\ rb_queue' = Append(rb_queue, Head(rb_typing))
    /\ rb_typing' = Tail(rb_typing)
    /\ UNCHANGED <<rb_pc, rb_last, rb_reads, rb_slept, rb_ret, NotReadByteVars>>

\* Console::read_byte has been called.
ReadByteCalled ==
    /\ rb_pc = "read"
    /\ rb_queue = <<>>
    /\ rb_typing \in SeqsUpTo(KeyBytes, MaxKeys)
    /\ rb_last = RbNone
    /\ rb_reads = 0
    /\ rb_slept = 0
    /\ rb_ret = RbNone

\* No call of Console::read_byte.
ReadByteIdle ==
    /\ rb_pc = "none"
    /\ rb_queue = <<>>
    /\ rb_typing = <<>>
    /\ rb_last = RbNone
    /\ rb_reads = 0
    /\ rb_slept = 0
    /\ rb_ret = RbNone

NextReadByte ==
    \/ ConsoleReadByteTurn
    \/ ConsoleReadByteSleep
    \/ ConsoleKeyPress

(***************************************************************************)
(* MvSettings::from_cli (src/bin/mv.rs), RenameFlags                       *)
(* (src/fs/rename_flags.rs)                                                *)
(***************************************************************************)
\* bitflags RenameFlags, as sets of bit positions
NOREPLACE == {0}
EXCHANGE == {1}
WHITEOUT == {2}

\* impl Default for MvSettings
MvSettings_default ==
    [paths |-> 0, verbose |-> FALSE, rename_flags |-> {},
     prompt_overwrite |-> FALSE]

\* What getargs hands to the loop for one argument: a known option (short or
\* long), an option mv does not know, or a positional.
MvArgs == {"v", "f", "n", "i", "exchange", "x", "positional"}

\* The options that print their name.
MvPrinted(arg) == IF arg \in {"v", "f", "n", "i", "exchange"} THEN <<arg>> ELSE <<>>

\* A from_cli whose --exchange leaves NOREPLACE as it is.
from_cli_arm_ExchangeKeeps(r, arg) ==
    CASE arg = "v" -> [r EXCEPT !.verbose = TRUE]
      [] arg = "f" ->
            [r EXCEPT !.prompt_overwrite = FALSE,
                      !.rename_flags = Remove(@, NOREPLACE)]
      [] arg = "n" ->
            [r EXCEPT !.prompt_overwrite = FALSE,
                      !.rename_flags = Remove(Insert(@, NOREPLACE), EXCHANGE)]
      [] arg = "i" ->
            [r EXCEPT !.prompt_overwrite = TRUE,
                      !.rename_flags = Remove(@, NOREPLACE)]
      [] arg = "exchange" ->
            [r EXCEPT !.rename_flags = Insert(@, EXCHANGE)]
      [] arg = "positional" -> [r EXCEPT !.paths = @ + 1]
      [] OTHER -> r

\* The arms of the match of from_cli, applied to result.
from_cli_arm(r, arg) ==
    CASE arg = "v" -> [r EXCEPT !.verbose = TRUE]
      [] arg = "f" ->
            [r EXCEPT !.prompt_overwrite = FALSE,
                      !.rename_flags = Remove(@, NOREPLACE)]
      [] arg = "n" ->
            [r EXCEPT !.prompt_overwrite = FALSE,
                      !.rename_flags = Remove(Insert(@, NOREPLACE), EXCHANGE)]
      [] arg = "i" ->
            [r EXCEPT !.prompt_overwrite = TRUE,
                      !.rename_flags = Remove(@, NOREPLACE)]
      [] arg = "exchange" ->
            [r EXCEPT !.rename_flags = Remove(Insert(@, EXCHANGE), NOREPLACE)]
      [] arg = "positional" -> [r EXCEPT !.paths = @ + 1]
      [] OTHER -> r

\* One turn of `while let Some(arg) = opts.next_arg()...?`: the next argument
\* goes through the match, or cannot be parsed, and from_cli returns Einval.
MvFromCliArg ==
    /\ mv_pc = "args"
    /\ Len(mv_args) < MaxOpts
    /\ \/ \E arg \in MvArgs :
             /\ mv_args' = Append(mv_args, arg)
             /\ mv_result' = from_cli_arm(mv_result, arg)
             /\ mv_out' = mv_out \o MvPrinted(arg)
             /\ UNCHANGED <<mv_pc, mv_ret>>
       \/ /\ mv_pc' = "done"
          /\ mv_ret' = "Einval"
          /\ UNCHANGED <<mv_args, mv_result, mv_out>>
    /\ UNCHANGED NotMvVars

\* next_arg gives None: Ok(result).
MvFromCliEnd ==
    /\ mv_pc = "args"
    /\ mv_pc' = "done"
    /\ mv_ret' = "Ok"
    /\ UNCHANGED <<mv_args, mv_result, mv_out, NotMvVars>>

\* from_cli has been called and has read none of the arguments yet.
MvEntered ==
    /\ mv_pc = "args"
    /\ mv_args = <<>>
    /\ mv_result = MvSettings_default
    /\ mv_out = <<>>
    /\ mv_ret = "none"

\* No mv.
MvIdle ==
    /\ mv_pc = "none"
    /\ mv_args = <<>>
    /\ mv_result = MvSettings_default
    /\ mv_out = <<>>
    /\ mv_ret = "none"

NextMv ==
    \/ MvFromCliArg
    \/ MvFromCliEnd

(***************************************************************************)
(* CatInputs::apply (src/bin/cat.rs) with no option but squeeze_blank      *)
(***************************************************************************)
\* The bytes of the inputs: the line feed, a letter, and a byte whose high
\* bit is set.
CatBytes == {NEWLINE_BYTE, 97, 200}

\* A cat that drops every blank line squeeze_blank meets.
apply_skips_EveryBlank(squeeze, is_line_blank, last_blank) ==
    squeeze /\ is_line_blank

\* The test before `continue`:
\* self.squeeze_blank && is_line_blank && last_line_blank
apply_skips(squeeze, is_line_blank, last_blank) ==
    squeeze /\ is_line_blank /\ last_blank

\* apply up to the loop: without an option the bytes are left as they are.
CatApplyCall ==
    /\ cat_pc = "call"
    /\ cat_pc' = IF squeeze_blank THEN "loop" ELSE "done"
    /\ UNCHANGED <<cat_input, cat_bytes, squeeze_blank, cat_k, cat_result,
                   is_line_start, last_line_blank, line_num, NotCatVars>>

\* One turn of `for &b in bytes.iter()`: a blank line after a blank line is
\* skipped, with the locals left as they are; any other byte is pushed, and
\* the locals are set for the next byte.
CatApplyByte ==
    /\ cat_pc = "loop"
    /\ cat_k < Len(cat_bytes)
    /\ LET b == cat_bytes[cat_k + 1]
           is_line_end == b = NEWLINE_BYTE
           is_line_blank == is_line_start /\ is_line_end
       IN  IF apply_skips(squeeze_blank, is_line_blank, last_line_blank)
           THEN UNCHANGED <<cat_result, is_line_start, last_line_blank,
                            line_num>>
           ELSE /\ cat_result' = Append(cat_result, b)
                /\ line_num' = IF is_line_end THEN line_num + 1 ELSE line_num
                /\ last_line_blank' = is_line_blank
                /\ is_line_start' = is_line_end
    /\ cat_k' = cat_k + 1
    /\ UNCHANGED <<cat_pc, cat_input, cat_bytes, squeeze_blank, NotCatVars>>

\* After the loop: *bytes = result.
CatApplyEnd ==
    /\ cat_pc = "loop"
    /\ cat_k = Len(cat_bytes)
    /\ cat_bytes' = cat_result
    /\ cat_pc' = "done"
    /\ UNCHANGED <<cat_input, squeeze_blank, cat_k, cat_result, is_line_start,
                   last_line_blank, line_num, NotCatVars>>

\* apply has been called on the bytes of an input.
CatEntered ==
    /\ cat_pc = "call"
    /\ cat_input \in SeqsUpTo(CatBytes, MaxCat)
    /\ cat_bytes = cat_input
    /\ squeeze_blank \in BOOLEAN
    /\ cat_k = 0
    /\ cat_result = <<>>
    /\ is_line_start = TRUE
    /\ last_line_blank = FALSE
    /\ line_num = 1

\* No cat.
CatIdle ==
    /\ cat_pc = "none"
    /\ cat_input = <<>>
    /\ cat_bytes = <<>>
    /\ squeeze_blank = FALSE
    /\ cat_k = 0
    /\ cat_result = <<>>
    /\ is_line_start = TRUE
    /\ last_line_blank = FALSE
    /\ line_num = 1

NextCat ==
    \/ CatApplyCall
    \/ CatApplyByte
    \/ CatApplyEnd

(***************************************************************************)
(* Specifications                                                          *)
(***************************************************************************)
\* Setter calls on a fresh OpenOptions.
ToolIdle == PrintIdle /\ FileOpsIdle /\ ReadByteIdle /\ MvIdle /\ CatIdle

UserIdle == ProcessIdle /\ WaitInfoIdle /\ ToolIdle

BootIdle == ConsoleIdle /\ ArgsIdle /\ EnvVarIdle /\ UserIdle

InitOO == OONew /\ NixIdle /\ FileIdle /\ BootIdle
SpecOO == InitOO /\ [][NextOO]_vars

\* Constructions of, and conversions from, NixString / NixBytes.
InitNix == NixFresh /\ OONew /\ FileIdle /\ BootIdle
SpecNix == InitNix /\ [][NextNix]_vars

\* Calls on one owning File, then its drop.
InitFile == FileOpened /\ OONew /\ NixIdle /\ BootIdle
SpecFile == InitFile /\ [][NextFile]_vars

\* Calls of read_line on an open console.
InitConsole ==
    /\ ConsoleOpened /\ OONew /\ NixIdle /\ FileIdle /\ ArgsIdle /\ EnvVarIdle
    /\ UserIdle
SpecConsole == InitConsole /\ [][NextConsole]_vars

\* One run of parse_argv_envp on an initial stack.
InitArgs ==
    /\ ArgsEntered /\ OONew /\ NixIdle /\ FileIdle /\ ConsoleIdle /\ EnvVarIdle
    /\ UserIdle
SpecArgs == InitArgs /\ [][NextArgs]_vars

\* EnvVar::try_from on a formatted "k=v".
InitEnvVar ==
    /\ EnvVarChosen /\ OONew /\ NixIdle /\ FileIdle /\ ConsoleIdle /\ ArgsIdle
    /\ UserIdle
SpecEnvVar == InitEnvVar /\ [][NextEnvVar]_vars

\* The subsystems of the first sections, none of them in use.
LibIdle ==
    OONew /\ NixIdle /\ FileIdle /\ ConsoleIdle /\ ArgsIdle /\ EnvVarIdle

\* ExitStatus::try_from on a wait info.
InitWaitInfo == WaitInfoChosen /\ ProcessIdle /\ ToolIdle /\ LibIdle
SpecWaitInfo == InitWaitInfo /\ [][NextWaitInfo]_vars

\* One call of execute_process, its child and the caller's other child.
InitProcess == ProcessEntered /\ WaitInfoIdle /\ ToolIdle /\ LibIdle
SpecProcess == InitProcess /\ [][NextProcess]_vars

\* One invocation of a print macro beside another writer of the streams.
InitPrint ==
    /\ PrintInvoked /\ FileOpsIdle /\ ReadByteIdle /\ MvIdle /\ CatIdle
    /\ ProcessIdle /\ WaitInfoIdle /\ LibIdle
SpecPrint == InitPrint /\ [][NextPrint]_vars

\* Calls on one open File, each of which goes on once it has begun.
InitFileOps ==
    /\ FileOpsOpened /\ PrintIdle /\ ReadByteIdle /\ MvIdle /\ CatIdle
    /\ ProcessIdle /\ WaitInfoIdle /\ LibIdle
SpecFileOps == InitFileOps /\ [][NextFileOps]_vars /\ FairFileOps

\* One call of Console::read_byte.
InitReadByte ==
    /\ ReadByteCalled /\ PrintIdle /\ FileOpsIdle /\ MvIdle /\ CatIdle
    /\ ProcessIdle /\ WaitInfoIdle /\ LibIdle
SpecReadByte == InitReadByte /\ [][NextReadByte]_vars

\* One run of MvSettings::from_cli over a command line.
InitMv ==
    /\ MvEntered /\ PrintIdle /\ FileOpsIdle /\ ReadByteIdle /\ CatIdle
    /\ ProcessIdle /\ WaitInfoIdle /\ LibIdle
SpecMv == InitMv /\ [][NextMv]_vars

\* One run of CatInputs::apply over the bytes of an input.
InitCat ==
    /\ CatEntered /\ PrintIdle /\ FileOpsIdle /\ ReadByteIdle /\ MvIdle
    /\ ProcessIdle /\ WaitInfoIdle /\ LibIdle
SpecCat == InitCat /\ [][NextCat]_vars

(***************************************************************************)
(* Claims about OpenOptions, checked under SpecOO                          *)
(***************************************************************************)
\* The flag constants a setter hands to make_flags_valid as last_changed.
SetterFlags ==
    { O_RDONLY, O_WRONLY, O_RDWR, O_APPEND, O_CLOEXEC, O_TRUNC, O_CREAT, O_EXCL,
      O_DIRECT, O_DIRECTORY, O_NOATIME, O_NOFOLLOW, O_NONBLOCK, O_PATH,
      O_TMPFILE, O_SYNC }

\* C1: after any sequence of setter calls from OpenOptions::new(), O_TRUNC or
\* O_TMPFILE is never set while the access mode is read-only; truncate(true)
\* or create_temp(true) called on read-only options leaves the access mode
\* read-write; read_only() leaves both O_TRUNC and O_TMPFILE cleared.
C1_NoTruncOrTempWhileReadOnly ==
    /\ IsReadOnly(open_flags) =>
           /\ ~Contains(open_flags, O_TRUNC)
           /\ ~Contains(open_flags, O_TMPFILE)
    /\ ( /\ oo_last.method \in {"truncate", "create_temp"}
         /\ oo_last.value = TRUE
         /\ IsReadOnly(oo_prev.open_flags) ) =>
           /\ Contains(open_flags, O_RDWR)
           /\ ~Contains(open_flags, O_WRONLY)
    /\ oo_last.method = "read_only" =>
           /\ IsReadOnly(open_flags)
           /\ ~Contains(open_flags, O_TRUNC)
           /\ ~Contains(open_flags, O_TMPFILE)

\* C1 witness: truncate(true) was called on read-only options and promoted
\* them to read-write.
C1_Witness ==
    /\ oo_last.method = "truncate"
    /\ oo_last.value = TRUE
    /\ IsReadOnly(oo_prev.open_flags)
    /\ Contains(open_flags, O_RDWR \cup O_TRUNC)

\* C2: after any sequence of setter calls, O_EXCL set implies O_CREAT set;
\* create_new(true) leaves O_CREAT set and create(false) leaves O_EXCL
\* cleared.
C2_ExclImpliesCreat ==
    /\ Contains(open_flags, O_EXCL) => Contains(open_flags, O_CREAT)
    /\ (oo_last.method = "create_new" /\ oo_last.value = TRUE) =>
           Contains(open_flags, O_EXCL \cup O_CREAT)
    /\ (oo_last.method = "create" /\ oo_last.value = FALSE) =>
           ~Intersects(open_flags, O_EXCL \cup O_CREAT)

\* C2 witness: create(false) was called while O_EXCL was set and cleared it.
C2_Witness ==
    /\ oo_last.method = "create"
    /\ oo_last.value = FALSE
    /\ Contains(oo_prev.open_flags, O_EXCL)
    /\ ~Contains(open_flags, O_EXCL)

\* C3: after any sequence of setter calls the write-only and read-write bits
\* are never both set, each access-mode setter leaves exactly its own mode in
\* force, and make_flags_valid applied to flags holding both bits clears the
\* write-only bit and keeps the read-write bit.
C3_OneAccessMode ==
    /\ ~Contains(open_flags, O_WRONLY \cup O_RDWR)
    /\ oo_last.method = "write_only" =>
           Contains(open_flags, O_WRONLY) /\ ~Contains(open_flags, O_RDWR)
    /\ oo_last.method = "read_write" =>
           Contains(open_flags, O_RDWR) /\ ~Contains(open_flags, O_WRONLY)
    /\ \A last_changed \in SetterFlags : \A value \in BOOLEAN :
           LET g == make_flags_valid(
                        Insert(open_flags, O_WRONLY \cup O_RDWR), last_changed, value)
           IN  Contains(g, O_RDWR) /\ ~Contains(g, O_WRONLY)

\* C3 witness: read_write() was called on write-only options.
C3_Witness ==
    /\ oo_last.method = "read_write"
    /\ Contains(oo_prev.open_flags, O_WRONLY)
    /\ Contains(open_flags, O_RDWR)
    /\ ~Contains(open_flags, O_WRONLY)

(***************************************************************************)
(* Claims about File, checked under SpecFile                               *)
(***************************************************************************)
\* C4: whenever read_to_bytes / read_to_string returns on a seekable
\* resource, with the bytes or with the error of a failed read, the cursor
\* equals the cursor at entry; on a descriptor that is not seekable no
\* restore is issued and the call still returns what the reads gave: on
\* success every byte from the entry position to the end.
C4_ReadToBytesKeepsCursor ==
    (pc = "idle" /\ ret.op \in {"read_to_bytes", "read_to_string"}) =>
        /\ k_kind # "pipe" => k_pos = entry_pos
        /\ k_kind = "pipe" => restores = 0
        /\ ret.ok => ret.data = SubSeq(k_data, entry_pos + 1, Len(k_data))
        /\ ~ret.ok => ret.errno \in {"Eio", "Eisdir", "Eilseq"}

\* C4 witness: read_to_bytes on a regular file of two bytes, entered with the
\* cursor at 1, returned the error of a failed read after the restore.
C4_Witness ==
    /\ pc = "idle"
    /\ ret.op = "read_to_bytes"
    /\ ~ret.ok
    /\ ret.errno = "Eio"
    /\ k_kind = "reg"
    /\ Len(k_data) = 2
    /\ entry_pos = 1
    /\ restores = 1

\* C5 as stated: whenever dir_ents returns on an open directory, with the
\* list or with any error of getdents64 or of decoding an entry, the cursor
\* equals the cursor at entry.
C5_DirEntsKeepsCursor ==
    (pc = "idle" /\ ret.op = "dir_ents" /\ k_kind = "dir") => k_pos = entry_pos

\* C6: File::write returns Ok only once every byte of the buffer has been
\* accepted by the kernel, in order, each write call having been handed
\* exactly the bytes not yet accepted; the total returned is the buffer's
\* length; an error of the kernel is returned instead of a total.
C6_WriteWritesAll ==
    /\ pc = "write" =>
           /\ total_bytes_written < Len(wbuf)
           /\ w_accepted = SubSeq(wbuf, 1, total_bytes_written)
    /\ (pc = "idle" /\ ret.op = "write") =>
           /\ ret.ok =>
                  /\ ret.n = Len(wbuf)
                  /\ w_accepted = wbuf
                  /\ k_kind = "reg" =>
                         SubSeq(k_data, entry_pos + 1, entry_pos + Len(wbuf)) = wbuf
           /\ ~ret.ok =>
                  /\ ret.errno \in {"Eio", "Enospc", "Epipe", "Ebadf"}
                  /\ Len(w_accepted) < Len(wbuf)

\* C6 witness: a two-byte buffer was written to a regular file in more than
\* one write call.
C6_Witness ==
    /\ pc = "idle"
    /\ ret.op = "write"
    /\ ret.ok
    /\ Len(wbuf) = 2
    /\ w_short
    /\ k_kind = "reg"

\* C7: the File issues no close before it is dropped and exactly one when it
\* is dropped, whatever the kernel answers to it; after the drop the
\* descriptor is closed and a read through its number fails with EBADF.
C7_CloseOnceOnDrop ==
    /\ pc # "dropped" => close_calls = 0 /\ k_open
    /\ pc = "dropped" => close_calls = 1 /\ ~k_open
    /\ (pc = "dropped" /\ ret.op = "stale_read") =>
           ~ret.ok /\ ret.errno = "Ebadf"

\* C7 witness: the File was dropped, the kernel answered the close with an
\* error, and a later read through the descriptor number failed with EBADF.
C7_Witness ==
    /\ pc = "dropped"
    /\ close_ret = "Eio"
    /\ close_calls = 1
    /\ ret.op = "stale_read"
    /\ ret.errno = "Ebadf"

\* The list is exactly the two entries "." and "..", both directories.
ExactlyDotAndDotDot(list) ==
    /\ Len(list) = 2
    /\ {list[1].name, list[2].name} = {Dot, DotDot}
    /\ \A i \in 1 .. 2 : list[i].d_type = "Dir"

\* C8 as stated: is_dir_empty returns true if and only if the entry list is
\* exactly the two entries "." and "..", both typed as directory.
C8_EmptyIffExactlyDots ==
    (pc = "idle" /\ ret.op = "is_dir_empty" /\ ret.ok) =>
        (ret.b <=> ExactlyDotAndDotDot(ret.data))

\* C8 amended: is_dir_empty returns true if and only if the entry list has
\* at most two entries and each of them is "." or ".." typed as directory.
C8_EmptyIffOnlyDots ==
    (pc = "idle" /\ ret.op = "is_dir_empty" /\ ret.ok) =>
        (ret.b <=>
            /\ Len(ret.data) <= 2
            /\ {ret.data[i] : i \in 1 .. Len(ret.data)} \subseteq
                   { [name |-> Dot, d_type |-> "Dir"],
                     [name |-> DotDot, d_type |-> "Dir"] })

\* C8 witness: is_dir_empty, called with the cursor at the start of a
\* directory holding only "." and "..", returned true.
C8_Witness ==
    /\ pc = "idle"
    /\ ret.op = "is_dir_empty"
    /\ ret.ok
    /\ ret.b
    /\ entry_pos = 0
    /\ ExactlyDotAndDotDot(ret.data)

(***************************************************************************)
(* Claims about NixString / NixBytes, checked under SpecNix                *)
(***************************************************************************)
\* C9: every NixString and NixBytes value, whatever it was constructed from,
\* has a zero as its last byte and no other zero byte.
C9_SingleTrailingNull ==
    nix_type \in {"NixString", "NixBytes"} =>
        /\ Len(nix_value) >= 1
        /\ nix_value[Len(nix_value)] = NULL_BYTE
        /\ \A i \in 1 .. (Len(nix_value) - 1) : nix_value[i] # NULL_BYTE

\* C9 witness: a NixString built from an input with an interior zero byte and
\* two trailing zero bytes.
C9_Witness ==
    /\ nix_type = "NixString"
    /\ nix_ctor = "NixString::try_from(Vec<u8>)"
    /\ Len(nix_input) = 3
    /\ nix_input[1] # NULL_BYTE
    /\ nix_input[2] = NULL_BYTE
    /\ nix_input[3] = NULL_BYTE

\* C10 as stated: converting any UTF-8 string s to a NixString and that
\* NixString back to a String yields exactly s.
C10_RoundTripExact ==
    (nix_ctor = "NixString::from(String)" /\ nix_back # "none") =>
        nix_back = "String" /\ nix_string = nix_input

\* The zero bytes of s deleted, the other bytes kept in order.
RECURSIVE WithoutZeros(_)
WithoutZeros(s) ==
    IF s = <<>> THEN <<>>
    ELSE IF Head(s) = 0 THEN WithoutZeros(Tail(s))
    ELSE <<Head(s)>> \o WithoutZeros(Tail(s))

\* C10 amended: the round trip yields exactly s when s holds no zero byte,
\* and s with its zero bytes removed otherwise.
C10_RoundTripWithoutZeros ==
    (nix_ctor = "NixString::from(String)" /\ nix_back # "none") =>
        /\ nix_back = "String"
        /\ nix_string = WithoutZeros(nix_input)
        /\ (\A i \in 1 .. Len(nix_input) : nix_input[i] # 0) =>
               nix_string = nix_input

\* C10 witness: a string with a two-byte scalar and no zero byte made the
\* round trip.
C10_Witness ==
    /\ nix_ctor = "NixString::from(String)"
    /\ nix_back = "String"
    /\ nix_string = <<77, 195, 169>>
    /\ nix_input = <<77, 195, 169>>

(***************************************************************************)
(* Console::read_line                                                      *)
(***************************************************************************)

\* A turn of the loop of Console::read_line that read the byte b.
ConsoleRead(b) == con_pc = "read_line" /\ con_typed' = Append(con_typed, b)

\* The byte read immediately before, in this call, was a backslash.
AfterBackslash ==
    con_typed # <<>> /\ con_typed[Len(con_typed)] = BACKSLASH_BYTE

\* Console::read_line has returned Ok(data) for the bytes typed.
ConsoleReturned(typed, data) ==
    /\ con_pc = "idle"
    /\ con_ret = Returned("read_line", OkData(data))
    /\ con_typed = typed

\* C11: in Console::read_line a newline read when the byte read immediately
\* before it was not a backslash ends the call, which returns the accumulator
\* as it stood, without the newline; a newline read immediately after a
\* backslash is appended to the accumulator and the call goes on reading
\* (as long as the accumulator is below max).
C11_NewlineEndsUnlessEscaped ==
    [][ ConsoleRead(NEWLINE_BYTE) =>
          IF AfterBackslash
          THEN /\ con_result' = Append(con_result, NEWLINE_BYTE)
               /\ (Len(con_result') < max => con_pc' = "read_line")
          ELSE /\ con_pc' = "idle"
               /\ con_ret' = Returned("read_line", OkData(con_result))
      ]_vars

\* read_line(2) read a backslash, a newline and a second newline: the first
\* newline was stored and reading went on, the second one ended the call.
C11_Witness ==
    /\ max = 2
    /\ ConsoleReturned(<<BACKSLASH_BYTE, NEWLINE_BYTE, NEWLINE_BYTE>>,
                       <<NEWLINE_BYTE>>)

\* C12: in Console::read_line a backspace removes the last byte of a
\* non-empty accumulator and leaves an empty one empty, and the accumulator
\* never holds a backspace byte.
C12_BackspacePops ==
    [][ /\ ConsoleRead(BACKSPACE_BYTE) =>
            /\ con_result # <<>> =>
                 con_result' = SubSeq(con_result, 1, Len(con_result) - 1)
            /\ con_result = <<>> => con_result' = <<>>
        /\ con_pc = "read_line" =>
            \A k \in 1 .. Len(con_result') : con_result'[k] # BACKSPACE_BYTE
      ]_vars

\* A backspace on the empty accumulator, then 'a', a backspace that removed
\* it, and the newline: the empty line was returned.
C12_Witness ==
    ConsoleReturned(<<BACKSPACE_BYTE, 97, BACKSPACE_BYTE, NEWLINE_BYTE>>, <<>>)

\* C13: every byte read by Console::read_line that is neither a newline nor
\* a backspace, a backslash included, is appended to the accumulator when it
\* is read.
C13_OtherBytesAppended ==
    [][ \A b \in ConsoleBytes \ {NEWLINE_BYTE, BACKSPACE_BYTE} :
          ConsoleRead(b) => con_result' = Append(con_result, b)
      ]_vars

\* C14: Console::read_line(max) returns at most max bytes, and it is never
\* in its loop with an accumulator of max bytes: it returns as soon as the
\* length reaches max.
C14_AtMostMax ==
    /\ (con_pc = "idle" /\ con_ret.op = "read_line" /\ con_ret.ok) =>
          Len(con_ret.data) <= max
    /\ con_pc = "read_line" => Len(con_result) < max

\* read_line(2) returned "ab" once the two bytes were read, with no newline.
C14_Witness ==
    /\ max = 2
    /\ ConsoleReturned(<<97, 98>>, <<97, 98>>)

\* A turn of the loop of either read_line that read the byte b and stored it
\* as the next byte of the line.
LineAppended(b) ==
    \/ /\ con_pc = "read_line"
       /\ con_typed' = Append(con_typed, b)
       /\ con_result' = Append(con_result, b)
    \/ /\ con_pc = "io_read_line"
       /\ con_typed' = Append(con_typed, b)
       /\ con_i' = con_i + 1

\* A turn of the loop of either read_line that read a backspace.
BackspaceRead ==
    /\ con_pc \in {"read_line", "io_read_line"}
    /\ con_typed' = Append(con_typed, BACKSPACE_BYTE)

\* C15: read_line echoes: a byte that is appended to the line has been
\* written to the console by the time it is appended, and nothing is written
\* for a backspace.
C15_EchoesWhatItAppends ==
    [][ /\ \A b \in ConsoleBytes :
              LineAppended(b) => con_echo' = Append(con_echo, b)
        /\ BackspaceRead => con_echo' = con_echo
      ]_vars

(***************************************************************************)
(* parse_argv_envp                                                         *)
(***************************************************************************)

\* The string the slot k of the stack points to.
StrAt(k) == stack.ptrs[k][1]

\* The slot of the first null pointer of the stack: it ends argv.
FirstNull ==
    CHOOSE k \in 1 .. Len(stack.ptrs) :
        /\ stack.ptrs[k] = NullPtr
        /\ \A m \in 1 .. k - 1 : stack.ptrs[m] # NullPtr

\* The slot of the null pointer that ends envp.
LastNull == Len(stack.ptrs)

\* The bytes of the strings in the slots 1 .. k, terminators not counted.
RECURSIVE SumLens(_)
SumLens(k) ==
    IF k = 0 THEN 0
    ELSE SumLens(k - 1) +
         (IF stack.ptrs[k] = NullPtr THEN 0 ELSE StrLen(StrAt(k)))

\* The string in slot k is UTF-8 and at most 4 KiB long with its NUL.
StringOk(k) ==
    /\ ValidUtf8(StrAt(k).body)
    /\ StrLen(StrAt(k)) + 1 <= 4 * 1024

\* The string in slot k is as above, and the strings up to it stay within
\* the cap on the total.
Passes(k) == StringOk(k) /\ SumLens(k) <= 128 * 1024

\* The string in slot k is KEY=VALUE with a key that is not empty.
KeyValue(k) ==
    \E e \in 2 .. Len(StrAt(k).body) :
        /\ StrAt(k).body[e] = 61
        /\ \A m \in 1 .. e - 1 : StrAt(k).body[m] # 61

\* argv holds argc valid strings followed by a null pointer.
ValidArgv ==
    /\ FirstNull = stack.argc + 1
    /\ \A k \in 1 .. stack.argc : Passes(k)

\* C16: when argv holds argc valid NUL-terminated strings followed by a null
\* pointer, parse_argv_envp gets through argv without an error, and the argv
\* it has built, and returns, has exactly argc entries, the strings of the
\* stack in their order.
C16_ArgvAsOnStack ==
    (ValidArgv /\ args_pc \in {"envp", "done"}) =>
        /\ Len(argv) = stack.argc
        /\ \A k \in 1 .. stack.argc : argv[k] = StrAt(k)
        /\ ptr > stack.argc + 1

\* The stack ["a", ""], null, ["k=v"], null with argc = 2 was parsed.
C16_Witness ==
    /\ args_pc = "done"
    /\ args_ret.ok
    /\ stack.argc = 2
    /\ argv = <<Str(<<97>>, 0), Str(<<>>, 0)>>
    /\ Len(envp) = 1

\* The first null pointer of argv is not at index argc.
ArgcMismatch == FirstNull # stack.argc + 1

\* The number of strings read before the mismatch is met.
ReadBeforeMismatch == Min(stack.argc, FirstNull - 1)

\* C17 as stated: parse_argv_envp fails with Einval whenever the first null
\* pointer of argv is not at index argc.
C17_MismatchIsEinval ==
    (args_pc = "done" /\ ArgcMismatch) =>
        ~args_ret.ok /\ args_ret.errno = "Einval"

\* C17: parse_argv_envp fails whenever the first null pointer of argv is not
\* at index argc; the error is Einval when every string read before the
\* mismatch is met passes its own checks, and otherwise the E2big or Eilseq
\* of the first string that does not.
C17_MismatchFails ==
    (args_pc = "done" /\ ArgcMismatch) =>
        /\ ~args_ret.ok
        /\ IF \A k \in 1 .. ReadBeforeMismatch : Passes(k)
           THEN args_ret.errno = "Einval"
           ELSE LET bad == CHOOSE k \in 1 .. ReadBeforeMismatch :
                              /\ ~Passes(k)
                              /\ \A m \in 1 .. k - 1 : Passes(m)
                IN  args_ret.errno =
                        IF StrLen(StrAt(bad)) + 1 > 4 * 1024 THEN "E2big"
                        ELSE IF SumLens(bad) > 128 * 1024 THEN "E2big"
                        ELSE "Eilseq"

\* argc = 2, but the slot after "a" is null already: Einval.
C17_Witness ==
    /\ args_pc = "done"
    /\ args_ret = [ok |-> FALSE, errno |-> "Einval"]
    /\ stack.argc = 2
    /\ stack.ptrs[2] = NullPtr
    /\ argv = <<Str(<<97>>, 0)>>

\* parse_argv_envp is at an argument: a turn of its loop over argv reads the
\* string of slot ptr.
AtArgument ==
    /\ args_pc = "argv"
    /\ argv_i < stack.argc
    /\ stack.ptrs[ptr] # NullPtr

\* C18: an argument of exactly 4 KiB with its terminating NUL is accepted (it
\* is pushed when it is UTF-8 and the total allows it), and an argument of
\* 4 KiB + 1 with its NUL makes parse_argv_envp fail with E2big.
C18_ArgumentWindow ==
    [][ AtArgument =>
          /\ ( /\ StrLen(StrAt(ptr)) + 1 = 4 * 1024
               /\ ValidUtf8(StrAt(ptr).body)
               /\ total_size + StrLen(StrAt(ptr)) <= 128 * 1024 ) =>
                  /\ argv' = Append(argv, StrAt(ptr))
                  /\ args_pc' = "argv"
          /\ StrLen(StrAt(ptr)) + 1 = 4 * 1024 + 1 =>
                  /\ args_pc' = "done"
                  /\ args_ret' = [ok |-> FALSE, errno |-> "E2big"]
      ]_vars

\* An argument of 4 KiB with its NUL was pushed, and the next one, of
\* 4 KiB + 1, ended the parse with E2big.
C18_Witness ==
    /\ args_pc = "done"
    /\ args_ret = [ok |-> FALSE, errno |-> "E2big"]
    /\ stack.argc = 2
    /\ argv = <<Str(<<97>>, 4 * 1024 - 2)>>
    /\ StrLen(StrAt(2)) + 1 = 4 * 1024 + 1

\* C19: the total is accumulated over every argv and envp string processed;
\* a stack of valid strings whose bytes total at most 128 KiB is accepted,
\* exactly 128 KiB included, and one whose total is more, 128 KiB + 1
\* included, is rejected with E2big.
C19_TotalCap ==
    /\ args_pc \in {"argv", "envp"} => total_size = SumLens(ptr - 1)
    /\ (args_pc = "done" /\ args_ret.ok) => total_size = SumLens(LastNull)
    /\ ( /\ args_pc = "done"
         /\ FirstNull = stack.argc + 1
         /\ \A k \in 1 .. stack.argc : StringOk(k)
         /\ \A k \in FirstNull + 1 .. LastNull - 1 :
               StringOk(k) /\ KeyValue(k) ) =>
            IF SumLens(LastNull) <= 128 * 1024
            THEN args_ret.ok
            ELSE args_ret = [ok |-> FALSE, errno |-> "E2big"]

\* A stack of argv and envp strings of exactly 128 KiB in total was accepted.
C19_Witness ==
    /\ args_pc = "done"
    /\ args_ret.ok
    /\ Len(envp) = 1
    /\ total_size = 128 * 1024

(***************************************************************************)
(* EnvVar                                                                  *)
(***************************************************************************)

\* C20 as stated: for every non-empty key k and every value v, parsing "k=v"
\* yields the pair (k, v).
C20_KeyValueRoundTrip ==
    (ev_ret.op = "try_from" /\ ev_key # <<>>) =>
        /\ ev_ret.ok
        /\ ev_ret.key = Str(ev_key, 0)
        /\ ev_ret.value = Str(ev_value, 0)

\* C20: for every non-empty key k that holds no '=' and every value v,
\* parsing "k=v" yields the pair (k, v): the first '=' of the string is the
\* separator, so a value may hold more of them.
C20_KeyValueRoundTripNoEqInKey ==
    ( /\ ev_ret.op = "try_from"
      /\ ev_key # <<>>
      /\ \A m \in 1 .. Len(ev_key) : ev_key[m] # 61 ) =>
        /\ ev_ret.ok
        /\ ev_ret.key = Str(ev_key, 0)
        /\ ev_ret.value = Str(ev_value, 0)

\* "k==v" was parsed as the key "k" and the value "=v".
C20_Witness ==
    /\ ev_ret.op = "try_from"
    /\ ev_key = <<107>>
    /\ ev_value = <<61, 118>>
    /\ ev_ret.ok
    /\ ev_ret.key = Str(<<107>>, 0)
    /\ ev_ret.value = Str(<<61, 118>>, 0)

(***************************************************************************)
(* Claims about execute_process, checked under SpecProcess                 *)
(***************************************************************************)
\* The child of the call has terminated by its own exit.
ChildExited == child.at \in {"zombie", "reaped"} /\ child.code = CLD_Exited

\* C21: a child whose execve failed has exited, by the exit that is the next
\* thing it does, with the number of the errno as its exit code, and is never
\* again running; an exit status the parent's call returns for it is the
\* failure status carrying that number.
C21_ExecveFailureExits ==
    /\ exec_errno # 0 => ChildExited /\ child.status = exec_errno
    /\ (ep_pc = "done" /\ ep_ret.ok /\ exec_errno # 0)
          => ep_ret.status = ExitFailure(exec_errno)

\* The execve failed with Enoent and the parent has returned the status.
C21_Witness ==
    /\ ep_pc = "done"
    /\ exec_errno = Errno_as_i32("Enoent")
    /\ child.at = "reaped"
    /\ ep_ret = OkStatus(ExitFailure(2))

\* C22: the waitid the parent blocks in names the child's pid, as a pid, and
\* asks for exited children only; the call returns an exit status only once
\* the child has terminated, and never one of another child.
C22_WaitsForItsChild ==
    /\ ep_pc = "waitid"
          => /\ wait_args.id_type = WaitIdType_Pid
             /\ wait_args.id = child.pid
             /\ wait_args.options = WEXITED
    /\ (ep_pc = "done" /\ ep_ret.ok)
          => /\ child.at = "reaped"
             /\ ep_ret = ExitStatus_from_siginfo(child.code, child.status)
    /\ ep_pc = "done" => sibling.at # "reaped"

\* The other child exited first, the child was stopped and continued, then
\* exited with 3, and only then did the call return.
C22_Witness ==
    /\ ep_pc = "done"
    /\ sibling.at = "zombie"
    /\ child.at = "reaped"
    /\ ep_ret = OkStatus(ExitFailure(3))

(***************************************************************************)
(* Claims about the decoding of wait infos, checked under SpecWaitInfo     *)
(***************************************************************************)
\* The wait info has been decoded, and res is what the decoding returned.
Decoded(res) == wi_ret = [op |-> "try_from"] @@ res

\* C23 as stated: (exited, 0) decodes to success, (exited, s) with s # 0 to
\* failure(s), a killed or dumped child to terminated(signal(s)) and a stopped
\* child to stopped(signal(s)), whatever the status s is.
C23_DecodesWaitInfo ==
    wi_ret.op = "try_from" =>
        /\ (wi_code = CLD_Exited /\ wi_status = 0)
              => Decoded(OkStatus(ExitSuccess))
        /\ (wi_code = CLD_Exited /\ wi_status # 0)
              => Decoded(OkStatus(ExitFailure(wi_status)))
        /\ wi_code \in {CLD_Killed, CLD_Dumped}
              => Decoded(OkStatus(Terminated(wi_status)))
        /\ wi_code = CLD_Stopped
              => Decoded(OkStatus(Stopped(wi_status)))

\* C23, amended: the same, the signal arms for a status that is one of the 31
\* signal numbers; for any other status they fail with Einval.
C23_DecodesWaitInfoOfSignals ==
    wi_ret.op = "try_from" =>
        /\ (wi_code = CLD_Exited /\ wi_status = 0)
              => Decoded(OkStatus(ExitSuccess))
        /\ (wi_code = CLD_Exited /\ wi_status # 0)
              => Decoded(OkStatus(ExitFailure(wi_status)))
        /\ (wi_code \in {CLD_Killed, CLD_Dumped} /\ wi_status \in 1 .. 31)
              => Decoded(OkStatus(Terminated(wi_status)))
        /\ (wi_code = CLD_Stopped /\ wi_status \in 1 .. 31)
              => Decoded(OkStatus(Stopped(wi_status)))
        /\ (wi_code \in {CLD_Killed, CLD_Dumped, CLD_Stopped}
               /\ wi_status \notin 1 .. 31)
              => Decoded(ErrStatus("Einval"))

\* A child stopped by signal 19 has been decoded to stopped(19).
C23_Witness ==
    /\ wi_code = CLD_Stopped
    /\ wi_status = 19
    /\ Decoded(OkStatus(Stopped(19)))

\* C24 as stated: a wait info whose child code is continued or trapped decodes
\* to failure(status), whatever the status is.
C24_ContinuedTrappedFail ==
    (wi_ret.op = "try_from" /\ wi_code \in {CLD_Continued, CLD_Trapped})
        => Decoded(OkStatus(ExitFailure(wi_status)))

(***************************************************************************)
(* Claims about the print macros, checked under SpecPrint                  *)
(***************************************************************************)
\* C25 as stated: a macro invocation that has written and has more to write
\* holds the lock of its stream, and on either descriptor the writes of the
\* invocation are not interleaved with those of another writer.
C25_MacroWritesUnderLock ==
    /\ (pr_pc = "write_fmt" /\ pr_k > 0)
          => pr_lock[macro_fd(pr_macro.name)] = "macro"
    /\ \A fd \in {STDOUT, STDERR} :
          \A a, b, c \in DOMAIN pr_out[fd] :
             (a < b /\ b < c /\ pr_out[fd][a] = "macro" /\ pr_out[fd][c] = "macro")
                => pr_out[fd][b] = "macro"

(***************************************************************************)
(* Claims about the return of File's operations, checked under SpecFileOps *)
(***************************************************************************)
\* C26 as stated: a call of read, read_byte, write, write_byte, stat or
\* dir_ents on an open File that has begun eventually returns, whatever the
\* kernel answers to its syscalls, zero-byte writes included.
C26_EveryCallReturns == (op_pc \in {"write", "dir_ents"}) ~> (op_pc = "idle")

(***************************************************************************)
(* Claims about Console::read_byte, checked under SpecReadByte             *)
(***************************************************************************)
\* The last File::read_byte found nothing: zero bytes, or Eagain.
NothingRead == rb_reads > 0 /\ rb_last \in {RbNone, RbErr("Eagain")}

LastOption(S) ==
    LET at == {k \in DOMAIN mv_args : mv_args[k] \in S}
    IN  IF at = {} THEN "none"
        ELSE mv_args[CHOOSE k \in at : \A j \in at : j <= k]

\* C28: whatever options from_cli has read, in whatever order and however
\* often, the rename flags do not hold NOREPLACE and EXCHANGE together, and
\* the last of the options in conflict decides: NOREPLACE is set exactly when
\* the last of -f, -n, -i, --exchange is -n, EXCHANGE exactly when the last of
\* -n, --exchange is --exchange, and prompting exactly when the last of -f,
\* -n, -i is -i.
C28_LastOptionDecides ==
    /\ ~(Contains(mv_result.rename_flags, NOREPLACE)
            /\ Contains(mv_result.rename_flags, EXCHANGE))
    /\ Contains(mv_result.rename_flags, NOREPLACE)
          <=> LastOption({"f", "n", "i", "exchange"}) = "n"
    /\ Contains(mv_result.rename_flags, EXCHANGE)
          <=> LastOption({"n", "exchange"}) = "exchange"
    /\ mv_result.prompt_overwrite <=> LastOption({"f", "n", "i"}) = "i"
    /\ mv_result.rename_flags \subseteq (NOREPLACE \cup EXCHANGE)

\* mv --exchange -n --exchange -i: EXCHANGE alone, and prompting.
C28_Witness ==
    /\ mv_ret = "Ok"
    /\ mv_args = <<"exchange", "n", "exchange", "i">>
    /\ mv_result.rename_flags = EXCHANGE
    /\ mv_result.prompt_overwrite

(***************************************************************************)
(* Claims about CatInputs::apply, checked under SpecCat                    *)
(***************************************************************************)
\* The byte at k ends a blank line of s: it is a line feed at the start of s
\* or right after a line feed.
BlankLineAt(s, k) ==
    /\ s[k] = NEWLINE_BYTE
    /\ k = 1 \/ s[k - 1] = NEWLINE_BYTE

\* The blank line at k is not the first of its run of blank lines.
RepeatedBlankAt(s, k) == k > 1 /\ BlankLineAt(s, k) /\ BlankLineAt(s, k - 1)

\* s from index k on, without the blank lines that repeat one.
RECURSIVE SqueezedFrom(_, _)
SqueezedFrom(s, k) ==
    IF k > Len(s) THEN <<>>
    ELSE (IF RepeatedBlankAt(s, k) THEN <<>> ELSE <<s[k]>>)
            \o SqueezedFrom(s, k + 1)

\* C29: with squeeze_blank as the only option, what apply leaves in the
\* vector is the input with every run of blank lines cut down to its first
\* one (a run at the very beginning included) and every other byte where and
\* what it was; no blank line of the output repeats one.
C29_SqueezeBlank ==
    (cat_pc = "done" /\ squeeze_blank) =>
        /\ cat_bytes = SqueezedFrom(cat_input, 1)
        /\ \A k \in DOMAIN cat_bytes : ~RepeatedBlankAt(cat_bytes, k)

\* Two blank lines at the beginning and three after the 'a' have each become
\* one.
C29_Witness ==
    /\ cat_pc = "done"
    /\ squeeze_blank
    /\ cat_input = <<NEWLINE_BYTE, NEWLINE_BYTE, 97, NEWLINE_BYTE, NEWLINE_BYTE>>
    /\ cat_bytes = <<NEWLINE_BYTE, 97, NEWLINE_BYTE, NEWLINE_BYTE>>

(***************************************************************************)
(* Claims about the frame of the OpenOptions setters, checked under SpecOO *)
(***************************************************************************)
\* The flag each open_flag_setter! method sets, and the permission bit each
\* file_permissions_setter! method sets.
FlagSetterOf ==
    [append |-> O_APPEND, close_on_exec |-> O_CLOEXEC, truncate |-> O_TRUNC,
     create |-> O_CREAT, create_new |-> O_EXCL, direct |-> O_DIRECT,
     directory |-> O_DIRECTORY, no_update_last_access |-> O_NOATIME,
     no_follow |-> O_NOFOLLOW, non_blocking |-> O_NONBLOCK,
     path_only |-> O_PATH, create_temp |-> O_TMPFILE, sync |-> O_SYNC]
PermSetterOf ==
    [set_uid |-> S_ISUID, set_git |-> S_ISGID, sticky |-> S_ISVTX,
     owner_read |-> S_IRUSR, owner_write |-> S_IWUSR,
     owner_execute |-> S_IXUSR, group_read |-> S_IRGRP,
     group_write |-> S_IWGRP, group_execute |-> S_IXGRP,
     other_read |-> S_IROTH, other_write |-> S_IWOTH,
     other_execute |-> S_IXOTH]
AccessSetters == {"read_only", "write_only", "read_write"}
AccessFlags == {O_WRONLY, O_RDWR}

\* The flags a call of method with value may change: its own, and those the
\* documented couplings give it.
MayChange(method, value) ==
    CASE method \in AccessSetters ->
            AccessFlags \cup
            (IF method = "read_only" THEN {O_TRUNC, O_TMPFILE} ELSE {})
      [] method \in {"truncate", "create_temp"} ->
            {FlagSetterOf[method]} \cup (IF value THEN AccessFlags ELSE {})
      [] method = "create" -> {O_CREAT} \cup (IF value THEN {} ELSE {O_EXCL})
      [] method = "create_new" ->
            {O_EXCL} \cup (IF value THEN {O_CREAT} ELSE {})
      [] OTHER -> {FlagSetterOf[method]}

\* The options the call was made on had the setting already.
AlreadyHad(method, value, mode) ==
    CASE method = "read_only" -> IsReadOnly(oo_prev.open_flags)
      [] method = "write_only" -> Contains(oo_prev.open_flags, O_WRONLY)
      [] method = "read_write" -> Contains(oo_prev.open_flags, O_RDWR)
      [] method = "set_mode" ->
            oo_prev.file_permissions = FilePermissionsFrom(mode)
      [] method \in DOMAIN FlagSetterOf ->
            Contains(oo_prev.open_flags, FlagSetterOf[method]) = value
      [] OTHER ->
            Contains(oo_prev.file_permissions, PermSetterOf[method]) = value

\* C30 as stated: the last setter call left the permission bits alone if it
\* was a flag setter and the open flags alone if it was a permission setter
\* or set_mode; a permission setter changed no bit but its own; a flag
\* setter changed no flag but its own and those of the documented couplings;
\* and a call that set what the options already had left them as they were.
C30_SettersChangeOnlyTheirOwn ==
    oo_calls > 0 =>
        LET method == oo_last.method
            isFlag == method \in AccessSetters \cup DOMAIN FlagSetterOf
        IN  /\ ~isFlag => open_flags = oo_prev.open_flags
            /\ isFlag => file_permissions = oo_prev.file_permissions
            /\ method \in DOMAIN PermSetterOf =>
                  \A bit \in FilePermissionsAll \ PermSetterOf[method] :
                     bit \in file_permissions <=> bit \in oo_prev.file_permissions
            /\ isFlag =>
                  \A flag \in (SetterFlags \ {O_RDONLY})
                                \ MayChange(method, oo_last.value) :
                     Contains(open_flags, flag)
                        <=> Contains(oo_prev.open_flags, flag)
            /\ AlreadyHad(method, oo_last.value, oo_last.mode) =>
                  /\ open_flags = oo_prev.open_flags
                  /\ file_permissions = oo_prev.file_permissions

====
